---- MODULE Spec2Model ----
(***************************************************************************)
(* A model of the Vue locator extractor: src/src/scanVueTemplates.ts (the  *)
(* extractor and classifier) and src/src/extractLocators.ts (the CLI).     *)
(* Template text is modelled as strings, and the regular expressions of    *)
(* the source as scanning operators over those strings.                    *)
(***************************************************************************)
EXTENDS Integers, Sequences, FiniteSets, TLC

(***************************************************************************)
(* Bounds of the model.                                                    *)
(***************************************************************************)
MaxAttrs == 2
MaxSnippets == 2
MaxRuns == 2

(***************************************************************************)
(* Strings: the JavaScript string primitives the source uses.              *)
(***************************************************************************)
LowerLetters == "abcdefghijklmnopqrstuvwxyz"
UpperLetters == "ABCDEFGHIJKLMNOPQRSTUVWXYZ"
DigitChars == "0123456789"

Char(s, i) == SubSeq(s, i, i)

CharsOf(s) == {Char(s, i) : i \in 1..Len(s)}

LowerSet == CharsOf(LowerLetters)
UpperSet == CharsOf(UpperLetters)
DigitSet == CharsOf(DigitChars)
LetterSet == LowerSet \cup UpperSet
\* \w of a JavaScript regular expression
WordSet == LetterSet \cup DigitSet \cup {"_"}
\* \s of a JavaScript regular expression (the characters the inputs use)
SpaceSet == {" ", "\t", "\n", "\r", "\f"}

ToLowerChar(c) ==
    IF c \in UpperSet
    THEN Char(LowerLetters, CHOOSE i \in 1..26 : Char(UpperLetters, i) = c)
    ELSE c

\* the characters lo..hi of s in lower case, by halves
RECURSIVE LowerRange(_, _, _)
LowerRange(s, lo, hi) ==
    IF lo > hi THEN ""
    ELSE IF lo = hi THEN ToLowerChar(Char(s, lo))
    ELSE LowerRange(s, lo, (lo + hi) \div 2) \o LowerRange(s, (lo + hi) \div 2 + 1, hi)

\* String.prototype.toLowerCase
toLowerCase(s) == LowerRange(s, 1, Len(s))

\* s.substring(i - 1, i - 1 + Len(lit)) === lit, positions counted from 1
StartsWithAt(s, i, lit) ==
    /\ i >= 1
    /\ i + Len(lit) - 1 <= Len(s)
    /\ SubSeq(s, i, i + Len(lit) - 1) = lit

\* String.prototype.includes
includes(s, sub) == \E i \in 1..(Len(s) - Len(sub) + 1) : StartsWithAt(s, i, sub)

\* the first position >= from where sub starts, or 0
IndexFrom(s, sub, from) ==
    LET hits == {i \in from..(Len(s) - Len(sub) + 1) : StartsWithAt(s, i, sub)}
    IN  IF hits = {} THEN 0 ELSE CHOOSE i \in hits : \A j \in hits : i <= j

\* the first position >= from holding a character of cs, or 0
IndexOfAny(s, cs, from) ==
    LET hits == {i \in from..Len(s) : Char(s, i) \in cs}
    IN  IF hits = {} THEN 0 ELSE CHOOSE i \in hits : \A j \in hits : i <= j

\* the first position >= from holding a character outside cs, or Len(s) + 1
SkipWhile(s, cs, from) ==
    LET hits == {i \in from..Len(s) : Char(s, i) \notin cs}
    IN  IF hits = {} THEN Len(s) + 1 ELSE CHOOSE i \in hits : \A j \in hits : i <= j

\* String.prototype.trim
trim(s) ==
    LET keep == {i \in 1..Len(s) : Char(s, i) \notin SpaceSet}
    IN  IF keep = {} THEN ""
        ELSE SubSeq(s, CHOOSE i \in keep : \A j \in keep : i <= j,
                       CHOOSE i \in keep : \A j \in keep : i >= j)

\* obj[k] of a Record<string, string>: undefined reads as the empty string,
\* which is falsy like undefined
Get(attributes, k) == IF k \in DOMAIN attributes THEN attributes[k] ELSE ""

\* obj[k] = v
Put(attributes, k, v) ==
    [x \in DOMAIN attributes \cup {k} |-> IF x = k THEN v ELSE attributes[x]]

(***************************************************************************)
(* The classifier (scanVueTemplates.ts, classifyElement).                  *)
(***************************************************************************)
testRelevantElements ==
    {"button", "input", "textarea", "select", "a", "form",
     "h1", "h2", "h3", "h4", "h5", "h6",
     "table", "tr", "td", "th", "ul", "ol", "li"}

robustAttributes ==
    <<"data-testid", "data-test-id", "data-test", "id", "name", "role",
      "aria-label", "placeholder">>

getByCompatibleAttributes ==
    <<"data-testid", "data-test-id", "data-test", "id", "name", "role",
      "aria-label", "placeholder", "title", "alt">>

decorativeClasses == <<"icon", "decoration", "separator", "spacer", "divider">>

\* mutant: `name` is missing from the list
HasGetByCompatible_NoName(attributes) ==
    \E i \in 1..Len(getByCompatibleAttributes) :
        /\ getByCompatibleAttributes[i] /= "name"
        /\ Get(attributes, getByCompatibleAttributes[i]) /= ""
        /\ trim(Get(attributes, getByCompatibleAttributes[i])) /= ""

\* getByCompatibleAttributes.some((attr) => attributes[attr] && attributes[attr].trim())
HasGetByCompatible(attributes) ==
    \E i \in 1..Len(getByCompatibleAttributes) :
        /\ Get(attributes, getByCompatibleAttributes[i]) /= ""
        /\ trim(Get(attributes, getByCompatibleAttributes[i])) /= ""

\* /\[@.*btn.*\]/i on a lowered string
BracketAtBtn(lx) ==
    \E i \in 1..Len(lx) :
        /\ StartsWithAt(lx, i, "[@")
        /\ \E j \in (i + 2)..Len(lx) :
              /\ StartsWithAt(lx, j, "btn")
              /\ \E k \in (j + 3)..Len(lx) :
                    /\ Char(lx, k) = "]"
                    /\ \A n \in i..k : Char(lx, n) /= "\n"

\* robustXPathPatterns.some((pattern) => pattern.test(xpathValue))
RobustXPathPattern(xpathValue) ==
    LET lx == toLowerCase(xpathValue)
    IN  \/ includes(lx, "//input")
        \/ includes(lx, "//button")
        \/ BracketAtBtn(lx)
        \/ includes(lx, "button[")
        \/ includes(lx, "input[")
        \/ includes(lx, "btn")
        \/ includes(lx, "contains(text()")
        \/ includes(lx, "text()=")

IsInteractiveElementWithText(element, xpathValue) ==
    /\ element \in {"button", "a", "h1", "h2", "h3", "h4", "h5", "h6"}
    /\ \/ includes(toLowerCase(xpathValue), "contains(text()")
       \/ includes(toLowerCase(xpathValue), "text()=")

\* mutant: the class rule for btn is lost
ClassifyRobustness_NoClassBtn(element, attributes) ==
    IF HasGetByCompatible(attributes) THEN "robust"
    ELSE LET xpathValue == IF Get(attributes, "data-xpath") /= ""
                           THEN Get(attributes, "data-xpath")
                           ELSE Get(attributes, "xpath")
         IN  IF /\ xpathValue /= ""
                /\ \/ RobustXPathPattern(xpathValue)
                   \/ IsInteractiveElementWithText(element, xpathValue)
             THEN "robust"
             ELSE "fragile"

\* lines 206-251: the robustness of classifyElement
ClassifyRobustness(element, attributes) ==
    IF HasGetByCompatible(attributes) THEN "robust"
    ELSE LET xpathValue == IF Get(attributes, "data-xpath") /= ""
                           THEN Get(attributes, "data-xpath")
                           ELSE Get(attributes, "xpath")
             classValue == Get(attributes, "class")
         IN  IF \/ /\ xpathValue /= ""
                   /\ \/ RobustXPathPattern(xpathValue)
                      \/ IsInteractiveElementWithText(element, xpathValue)
                \/ /\ classValue /= ""
                   /\ includes(toLowerCase(classValue), "btn")
             THEN "robust"
             ELSE "fragile"

IsDecorative(classValue) ==
    \E i \in 1..Len(decorativeClasses) : includes(classValue, decorativeClasses[i])

\* mutant: the decorative override is applied before the element rules, so
\* the element rules win
ClassifyRelevance_DecorativeFirst(element, attributes) ==
    IF element \in testRelevantElements
    THEN IF element \in {"button", "input", "textarea", "select", "a", "form"}
         THEN "high" ELSE "medium"
    ELSE IF IsDecorative(Get(attributes, "class")) THEN "low"
    ELSE IF HasGetByCompatible(attributes) THEN "medium"
    ELSE "low"

\* lines 253-291: the testRelevance of classifyElement
ClassifyRelevance(element, attributes) ==
    LET byElement ==
            IF element \in testRelevantElements
            THEN IF element \in {"button", "input", "textarea", "select", "a", "form"}
                 THEN "high"
                 ELSE IF element \in {"h1", "h2", "h3", "h4", "h5", "h6", "table", "tr"}
                      THEN "medium"
                      ELSE "medium"
            ELSE "low"
        raised ==
            IF HasGetByCompatible(attributes) /\ byElement = "low"
            THEN "medium" ELSE byElement
    IN  IF IsDecorative(Get(attributes, "class")) THEN "low" ELSE raised

classifyElement(element, attributes) ==
    [robustness |-> ClassifyRobustness(element, attributes),
     testRelevance |-> ClassifyRelevance(element, attributes)]

(***************************************************************************)
(* Template normalisation (normalizeTemplateForParsing).                   *)
(***************************************************************************)
Min(S) == CHOOSE x \in S : \A y \in S : x <= y
Max(S) == CHOOSE x \in S : \A y \in S : x >= y

\* the start of the maximal run of characters of cs that ends at position to
BackWhile(s, cs, to) ==
    LET bad == {i \in 1..to : Char(s, i) \notin cs}
    IN  IF bad = {} THEN 1 ELSE Max(bad) + 1

\* .replace(/<!--[\s\S]*?-->/g, '')
RECURSIVE RemoveComments(_)
RemoveComments(s) ==
    LET i == IndexFrom(s, "<!--", 1)
        j == IF i = 0 THEN 0 ELSE IndexFrom(s, "-->", i + 4)
    IN  IF j = 0 THEN s
        ELSE SubSeq(s, 1, i - 1) \o RemoveComments(SubSeq(s, j + 3, Len(s)))

\* .replace(/\s*\n\s*/g, ' ') when onlyNewlines, .replace(/\s{2,}/g, ' ')
\* otherwise: every maximal whitespace run that qualifies becomes one space
RECURSIVE CollapseRuns(_, _, _)
CollapseRuns(s, from, onlyNewlines) ==
    LET i == IndexOfAny(s, SpaceSet, from)
        e == SkipWhile(s, SpaceSet, i)
        run == SubSeq(s, i, e - 1)
        hit == IF onlyNewlines THEN includes(run, "\n") ELSE Len(run) >= 2
    IN  IF i = 0 THEN SubSeq(s, from, Len(s))
        ELSE SubSeq(s, from, i - 1) \o (IF hit THEN " " ELSE run)
                 \o CollapseRuns(s, e, onlyNewlines)

\* .replace(/\s*=\s*/g, '=')
RECURSIVE TightenEquals(_, _)
TightenEquals(s, from) ==
    LET q == IndexFrom(s, "=", from)
        b == IF q = 0 \/ q = from THEN q
             ELSE Max({from, BackWhile(s, SpaceSet, q - 1)})
        e == SkipWhile(s, SpaceSet, q + 1)
    IN  IF q = 0 THEN SubSeq(s, from, Len(s))
        ELSE SubSeq(s, from, b - 1) \o "=" \o TightenEquals(s, e)

\* [a-zA-Z:-]
AttrNameSet == LetterSet \cup {":", "-"}

\* .replace(/([>\s])([a-zA-Z:-]+)=/g, '$1 $2=')
RECURSIVE SpaceBeforeAttributes(_, _)
SpaceBeforeAttributes(s, from) ==
    LET q == IndexFrom(s, "=", from)
        r == IF q <= 1 THEN q ELSE BackWhile(s, AttrNameSet, q - 1)
        hit == /\ q > 1
               /\ r <= q - 1
               /\ r - 1 >= from
               /\ Char(s, r - 1) \in SpaceSet \cup {">"}
    IN  IF q = 0 THEN SubSeq(s, from, Len(s))
        ELSE IF hit
             THEN SubSeq(s, from, r - 1) \o " " \o SubSeq(s, r, q)
                      \o SpaceBeforeAttributes(s, q + 1)
             ELSE SubSeq(s, from, q) \o SpaceBeforeAttributes(s, q + 1)

normalizeTemplateForParsing(templateContent) ==
    LET a == RemoveComments(templateContent)
        b == CollapseRuns(a, 1, TRUE)
        c == CollapseRuns(b, 1, FALSE)
        d == TightenEquals(c, 1)
        e == SpaceBeforeAttributes(d, 1)
    IN  trim(e)

(***************************************************************************)
(* The attribute matcher: locatorPatterns and String.prototype.matchAll.   *)
(* Every pattern is: an optional word boundary, a literal LIT, optional     *)
(* whitespace around an equals sign, an opening quote of the set Q, a      *)
(* capture free of Q, a closing quote of Q; flags gis.  `word` is the      *)
(* boundary, `quotes` is Q, `least` the least length of the capture.       *)
(***************************************************************************)
DoubleSingle == {"\"", "'"}
\* the grave accent, which a TLA+ string cannot hold, is written ~ in every
\* modelled text; no expression of the source treats ~ specially
Backtick == {"~"}

Pat(lit, word, quotes, least, type, sel, dyn) ==
    [lit |-> lit, word |-> word, quotes |-> quotes, least |-> least,
     type |-> type, sel |-> sel, isDynamic |-> dyn]

locatorPatterns ==
    << Pat("data-testid", FALSE, DoubleSingle, 1, "data-testid", "attr", FALSE),
       Pat(":data-testid", FALSE, DoubleSingle, 1, "data-testid", "attr", TRUE),
       Pat("v-bind:data-testid", FALSE, DoubleSingle, 1, "data-testid", "attr", TRUE),
       Pat(":data-testid", FALSE, Backtick, 0, "data-testid", "attrLiteral", TRUE),
       Pat("data-test-id", FALSE, DoubleSingle, 1, "data-test-id", "attr", FALSE),
       Pat(":data-test-id", FALSE, DoubleSingle, 1, "data-test-id", "attr", TRUE),
       Pat("data-test", FALSE, DoubleSingle, 1, "data-test", "attr", FALSE),
       Pat(":data-test", FALSE, DoubleSingle, 1, "data-test", "attr", TRUE),
       Pat("id", TRUE, DoubleSingle, 1, "id", "id", FALSE),
       Pat(":id", FALSE, DoubleSingle, 1, "id", "id", TRUE),
       Pat(":id", FALSE, Backtick, 0, "id", "idLiteral", TRUE),
       Pat("class", TRUE, DoubleSingle, 1, "class", "class", FALSE),
       Pat("name", TRUE, DoubleSingle, 1, "name", "attr", FALSE),
       Pat(":name", FALSE, DoubleSingle, 1, "name", "attr", TRUE),
       Pat(":name", FALSE, Backtick, 0, "name", "attrLiteral", TRUE),
       Pat("placeholder", FALSE, DoubleSingle, 1, "placeholder", "attr", FALSE),
       Pat(":placeholder", FALSE, DoubleSingle, 1, "placeholder", "attr", TRUE),
       Pat("aria-label", FALSE, DoubleSingle, 1, "aria-label", "attr", FALSE),
       Pat(":aria-label", FALSE, DoubleSingle, 1, "aria-label", "attr", TRUE),
       Pat("role", TRUE, DoubleSingle, 1, "role", "attr", FALSE),
       Pat(":role", FALSE, DoubleSingle, 1, "role", "attr", TRUE),
       Pat("data-xpath", FALSE, DoubleSingle, 1, "xpath", "verbatim", FALSE),
       Pat("xpath", FALSE, DoubleSingle, 1, "xpath", "verbatim", FALSE) >>

\* the match of pat that starts at position i of content, or NoMatch;
\* lowered is content in lower case (flag i)
NoMatch == [index |-> 0, end |-> 0, value |-> ""]

MatchAt(content, lowered, pat, i) ==
    LET a == SkipWhile(content, SpaceSet, i + Len(pat.lit))
        b == SkipWhile(content, SpaceSet, a + 1)
        c == IndexOfAny(content, pat.quotes, b + 1)
    IN  IF /\ StartsWithAt(lowered, i, pat.lit)
           /\ (pat.word => (i = 1 \/ Char(content, i - 1) \notin WordSet))
           /\ a <= Len(content) /\ Char(content, a) = "="
           /\ b <= Len(content) /\ Char(content, b) \in pat.quotes
           /\ c /= 0
           /\ c - b - 1 >= pat.least
        THEN [index |-> i, end |-> c, value |-> SubSeq(content, b + 1, c - 1)]
        ELSE NoMatch

\* [...content.matchAll(pattern)]: the matches from left to right, each
\* search resuming after the previous match
RECURSIVE MatchAllFrom(_, _, _, _)
MatchAllFrom(content, lowered, pat, from) ==
    LET i == IndexFrom(lowered, pat.lit, from)
        m == MatchAt(content, lowered, pat, i)
    IN  IF i = 0 THEN <<>>
        ELSE IF m = NoMatch THEN MatchAllFrom(content, lowered, pat, i + 1)
        ELSE <<m>> \o MatchAllFrom(content, lowered, pat, m.end + 1)

matchAll(content, pat) == MatchAllFrom(content, toLowerCase(content), pat, 1)

(***************************************************************************)
(* Selector builders of locatorPatterns.  A null result is [ok |-> FALSE]. *)
(***************************************************************************)
\* value.split(sep)[0]
BeforeFirst(value, sep) ==
    LET i == IndexFrom(value, sep, 1)
    IN  IF i = 0 THEN value ELSE SubSeq(value, 1, i - 1)

\* value.split(sep).pop(), sep one character
AfterLast(value, sep) ==
    LET hits == {i \in 1..Len(value) : Char(value, i) = sep}
    IN  IF hits = {} THEN value ELSE SubSeq(value, Max(hits) + 1, Len(value))

extractTemplateLiteralBase(value) ==
    IF BeforeFirst(value, "${") /= "" THEN BeforeFirst(value, "${")
    ELSE IF AfterLast(value, "}") /= "" THEN AfterLast(value, "}")
    ELSE value

\* val.split(/\s+/).join('.')
RECURSIVE JoinOnSpace(_, _)
JoinOnSpace(val, from) ==
    LET i == IndexOfAny(val, SpaceSet, from)
    IN  IF i = 0 THEN SubSeq(val, from, Len(val))
        ELSE SubSeq(val, from, i - 1) \o "."
                 \o JoinOnSpace(val, SkipWhile(val, SpaceSet, i))

Sel(str) == [ok |-> TRUE, selector |-> str]
NullSelector == [ok |-> FALSE, selector |-> ""]

selector(pat, val) ==
    CASE pat.sel = "attr" -> Sel("[" \o pat.type \o "=\"" \o val \o "\"]")
      [] pat.sel = "attrLiteral" ->
            IF includes(val, "${")
            THEN Sel("[" \o pat.type \o "*=\"" \o extractTemplateLiteralBase(val) \o "\"]")
            ELSE Sel("[" \o pat.type \o "=\"" \o val \o "\"]")
      [] pat.sel = "id" -> Sel("#" \o val)
      [] pat.sel = "idLiteral" ->
            IF includes(val, "${")
            THEN Sel("[id*=\"" \o extractTemplateLiteralBase(val) \o "\"]")
            ELSE Sel("#" \o val)
      [] pat.sel = "class" ->
            IF \/ includes(val, "[") \/ includes(val, "{{")
               \/ includes(val, "${") \/ includes(val, "{")
            THEN NullSelector
            ELSE Sel("." \o JoinOnSpace(val, 1))
      [] pat.sel = "verbatim" -> Sel(val)

(***************************************************************************)
(* The element context resolver.  Positions count from 1: position p is    *)
(* index p - 1 of the source.                                              *)
(***************************************************************************)
\* the last position <= to holding a character of cs, or 0
LastIndexOfAny(s, cs, to) ==
    LET hits == {i \in 1..to : Char(s, i) \in cs}
    IN  IF hits = {} THEN 0 ELSE Max(hits)

Brackets == {"<", ">"}

\* lines 486-496: while (tagStart > 0) { ... tagStart-- }, the loop position
\* jumping from bracket to bracket
RECURSIVE TagStartFrom(_, _, _)
TagStartFrom(content, p, depth) ==
    LET q == LastIndexOfAny(content, Brackets, p)
    IN  IF q <= 1 THEN 1
        ELSE IF Char(content, q) = ">" THEN TagStartFrom(content, q - 1, depth + 1)
        ELSE IF depth = 0 THEN q
        ELSE TagStartFrom(content, q - 1, depth - 1)

\* lines 499-509: while (tagEnd < content.length) { ... tagEnd++ }
RECURSIVE TagEndFrom(_, _, _)
TagEndFrom(content, p, depth) ==
    LET q == IndexOfAny(content, Brackets, p)
    IN  IF q = 0 THEN Len(content) + 1
        ELSE IF Char(content, q) = "<" THEN TagEndFrom(content, q + 1, depth + 1)
        ELSE IF depth = 0 THEN q
        ELSE TagEndFrom(content, q + 1, depth - 1)

\* [a-zA-Z0-9-]
TagNameSet == LetterSet \cup DigitSet \cup {"-"}
\* [\w-]
DirectiveSet == WordSet \cup {"-"}

\* tagContent.match(/<([a-zA-Z][a-zA-Z0-9-]*)[^>]*\/?>/s): the position of
\* the `<` of the leftmost match, or 0
TagMatchAt(tagContent) ==
    LET hits == {i \in 1..(Len(tagContent) - 1) :
                    /\ Char(tagContent, i) = "<"
                    /\ Char(tagContent, i + 1) \in LetterSet
                    /\ IndexFrom(tagContent, ">", i + 2) /= 0}
    IN  IF hits = {} THEN 0 ELSE Min(hits)

\* the matches of  NAME\s*=\s*["']([^"']*)["']  from position `from`, NAME
\* being \w+(?:-\w+)* when plain, and [@:][\w-]+ or v-bind:[\w-]+ or
\* v-on:[\w-]+ otherwise; a sequence of <<name, value>>
RECURSIVE AttrEqMatches(_, _, _)
AttrEqMatches(str, from, plain) ==
    LET q == IndexFrom(str, "=", from)
        b == IF q <= 1 THEN q ELSE Max({from, BackWhile(str, SpaceSet, q - 1)})
        r == IF b <= 1 THEN b ELSE Max({from, BackWhile(str, DirectiveSet, b - 1)})
        plainStarts == {x \in r..(b - 1) :
                           /\ Char(str, x) \in WordSet
                           /\ ~ includes(SubSeq(str, x, b - 1), "--")}
        start ==
            IF b <= 1 \/ r > b - 1 THEN 0
            ELSE IF plain
                 THEN IF Char(str, b - 1) \in WordSet /\ plainStarts /= {}
                      THEN Min(plainStarts) ELSE 0
                 ELSE IF r - 7 >= from /\ StartsWithAt(str, r - 7, "v-bind:") THEN r - 7
                 ELSE IF r - 5 >= from /\ StartsWithAt(str, r - 5, "v-on:") THEN r - 5
                 ELSE IF r - 1 >= from /\ Char(str, r - 1) \in {"@", ":"} THEN r - 1
                 ELSE 0
        t == SkipWhile(str, SpaceSet, q + 1)
        c == IndexOfAny(str, DoubleSingle, t + 1)
        ok == /\ start /= 0
              /\ t <= Len(str) /\ Char(str, t) \in DoubleSingle
              /\ c /= 0
    IN  IF q = 0 THEN <<>>
        ELSE IF ok
             THEN << <<SubSeq(str, start, b - 1), SubSeq(str, t + 1, c - 1)>> >>
                      \o AttrEqMatches(str, c + 1, plain)
             ELSE AttrEqMatches(str, q + 1, plain)

\* the matches of  (v-[\w-]+)(?:\s|>|$)  from position `from`
RECURSIVE BareDirectiveMatches(_, _)
BareDirectiveMatches(str, from) ==
    LET i == IndexFrom(str, "v-", from)
        e == SkipWhile(str, DirectiveSet, i + 2)
        ok == /\ e > i + 2
              /\ (e > Len(str) \/ Char(str, e) \in SpaceSet \cup {">"})
    IN  IF i = 0 THEN <<>>
        ELSE IF ok
             THEN << <<SubSeq(str, i, e - 1), "">> >>
                      \o BareDirectiveMatches(str, IF e > Len(str) THEN e ELSE e + 1)
             ELSE BareDirectiveMatches(str, i + 1)

\* for (...) attributes[attrMatch[1]] = attrMatch[2] || ''
RECURSIVE PutAll(_, _)
PutAll(attributes, pairs) ==
    IF pairs = <<>> THEN attributes
    ELSE PutAll(Put(attributes, Head(pairs)[1], Head(pairs)[2]), Tail(pairs))

NoAttributes == [x \in {} |-> ""]

\* lines 521-544: the attributes parsed from attributeString
ParseAttributes(attributeString) ==
    PutAll(PutAll(PutAll([x \in {"fullAttributeString"} |-> attributeString],
                         AttrEqMatches(attributeString, 1, TRUE)),
                  AttrEqMatches(attributeString, 1, FALSE)),
           BareDirectiveMatches(attributeString, 1))

\* lines 518-544: tagContent.substring(element.length + 1, -1) has its
\* negative end read as 0 and its two arguments swapped
ParseElement(tagContent, element) ==
    [element |-> element,
     attributes |-> ParseAttributes(SubSeq(tagContent, 1, Len(element) + 1))]

\* lines 514-518: tagMatch and its first group, `at` the position of the tag
ParseTagAt(tagContent, at) ==
    IF at = 0 THEN [element |-> "element", attributes |-> NoAttributes]
    ELSE ParseElement(tagContent,
                      SubSeq(tagContent, at + 1,
                             SkipWhile(tagContent, TagNameSet, at + 1) - 1))

\* line 514: tagContent.match(...)
ParseTag(tagContent) == ParseTagAt(tagContent, TagMatchAt(tagContent))

\* extractElementWithAttributesEnhanced(match, content), matchIndex = match.index + 1
extractElementWithAttributesEnhanced(matchIndex, content) ==
    ParseTag(SubSeq(content, TagStartFrom(content, matchIndex, 0),
                    Min({Len(content), TagEndFrom(content, matchIndex, 0)})))

\* the matches of  (v-[\w-]+|@\w+|:\w+)  from position `from`
RECURSIVE DirectiveTokens(_, _)
DirectiveTokens(str, from) ==
    LET hits == {i \in from..Len(str) :
                    \/ /\ StartsWithAt(str, i, "v-")
                       /\ SkipWhile(str, DirectiveSet, i + 2) > i + 2
                    \/ /\ Char(str, i) \in {"@", ":"}
                       /\ SkipWhile(str, WordSet, i + 1) > i + 1}
        i == Min(hits)
        e == IF Char(str, i) \in {"@", ":"}
             THEN SkipWhile(str, WordSet, i + 1)
             ELSE SkipWhile(str, DirectiveSet, i + 2)
    IN  IF hits = {} THEN <<>>
        ELSE <<SubSeq(str, i, e - 1)>> \o DirectiveTokens(str, e)

SeqToSet(q) == {q[i] : i \in 1..Len(q)}

detectVueDirectives(attributeString) ==
    LET directives == DirectiveTokens(attributeString, 1)
    IN  [directives |-> directives,
         isDynamic |-> "v-for" \in SeqToSet(directives),
         isConditional |-> SeqToSet(directives) \cap {"v-if", "v-else-if", "v-show"} /= {}]

\* customComponentPattern.test(tagName) || tagName.includes('-')
isCustomComponent(tagName) ==
    \/ /\ tagName /= ""
       /\ Char(tagName, 1) \in UpperSet
       /\ \A i \in 1..Len(tagName) : Char(tagName, i) \in LetterSet \cup DigitSet
    \/ includes(tagName, "-")

\* Vue directives that make elements dynamic or conditional
dynamicDirectives == <<"v-for", "v-if", "v-else-if", "v-show", "v-model">>

\* the matches of  (v-[\w-]+)  from position `from`
RECURSIVE VDirectiveTokens(_, _)
VDirectiveTokens(str, from) ==
    LET hits == {i \in from..Len(str) :
                    /\ StartsWithAt(str, i, "v-")
                    /\ SkipWhile(str, DirectiveSet, i + 2) > i + 2}
        i == Min(hits)
        e == SkipWhile(str, DirectiveSet, i + 2)
    IN  IF hits = {} THEN <<>>
        ELSE <<SubSeq(str, i, e - 1)>> \o VDirectiveTokens(str, e)

\* parentTag.match(/<(\w+)([^>]*)/): [found, tagName, attributes]
ParentTagMatch(parentTag) ==
    LET hits == {i \in 1..(Len(parentTag) - 1) :
                    Char(parentTag, i) = "<" /\ Char(parentTag, i + 1) \in WordSet}
        i == Min(hits)
        e == SkipWhile(parentTag, WordSet, i + 1)
        g == IndexFrom(parentTag, ">", e)
    IN  IF hits = {} THEN [found |-> FALSE, tagName |-> "", attributes |-> ""]
        ELSE [found |-> TRUE,
              tagName |-> SubSeq(parentTag, i + 1, e - 1),
              attributes |-> SubSeq(parentTag, e,
                                    IF g = 0 THEN Len(parentTag) ELSE g - 1)]

\* lines 138-172: while (searchIndex > 0) { ... searchIndex-- }, the loop
\* position jumping from bracket to bracket
RECURSIVE AncestorScan(_, _, _, _)
AncestorScan(content, p, depth, found) ==
    LET q == LastIndexOfAny(content, Brackets, p)
        g == IndexFrom(content, ">", q)
        parentTag == SubSeq(content, q, IF g = 0 THEN Len(content) ELSE g)
        tm == ParentTagMatch(parentTag)
        more == IF tm.found THEN found \o VDirectiveTokens(tm.attributes, 1) ELSE found
    IN  IF q <= 1 THEN [parentContext |-> "", ancestorDirectives |-> found]
        ELSE IF Char(content, q) = ">" THEN AncestorScan(content, q - 1, depth + 1, found)
        ELSE IF depth - 1 >= 0 THEN AncestorScan(content, q - 1, depth - 1, found)
        ELSE IF /\ tm.found
                /\ \E d \in 1..Len(dynamicDirectives) :
                      includes(tm.attributes, dynamicDirectives[d])
             THEN [parentContext |-> "inside " \o tm.tagName \o " with dynamic directives",
                   ancestorDirectives |-> more]
             ELSE AncestorScan(content, q - 1, depth - 1, more)

\* (beforeMatch.match(/\n/g) || []).length + 1
LineNumber(content, matchIndex) ==
    Cardinality({i \in 1..(matchIndex - 1) : Char(content, i) = "\n"}) + 1

analyzeElementContext(content, matchIndex) ==
    LET a == AncestorScan(content, matchIndex, 0, <<>>)
    IN  [parentContext |-> a.parentContext,
         ancestorDirectives |-> a.ancestorDirectives,
         lineNumber |-> LineNumber(content, matchIndex)]

(***************************************************************************)
(* The key generator and the warning text.                                 *)
(***************************************************************************)
LowerAlnumSet == LowerSet \cup DigitSet

\* .replace(/[^a-z0-9]+/g, sep)
RECURSIVE ReplaceNonAlnumRuns(_, _, _)
ReplaceNonAlnumRuns(str, from, sep) ==
    LET i == SkipWhile(str, LowerAlnumSet, from)
        e == IF i > Len(str) THEN i
             ELSE LET next == IndexOfAny(str, LowerAlnumSet, i)
                  IN  IF next = 0 THEN Len(str) + 1 ELSE next
    IN  IF i > Len(str) THEN SubSeq(str, from, Len(str))
        ELSE SubSeq(str, from, i - 1) \o sep \o ReplaceNonAlnumRuns(str, e, sep)

\* .replace(/^_+|_+$/g, '')
StripUnderscores(str) ==
    LET a == SkipWhile(str, {"_"}, 1)
        b == IF a > Len(str) THEN a ELSE BackWhile(str, {"_"}, Len(str))
    IN  IF a > Len(str) THEN "" ELSE SubSeq(str, a, b - 1)

\* mutant: the flag suffixes are not appended
generateEnhancedKey_NoSuffix(rawValue, type, isDynamic, isConditional) ==
    LET key == StripUnderscores(ReplaceNonAlnumRuns(toLowerCase(rawValue), 1, "_"))
    IN  IF type = "class" THEN "class_" \o key
        ELSE IF type = "role" THEN toLowerCase(rawValue) \o "_role"
        ELSE IF type = "placeholder" THEN key \o "_input"
        ELSE IF type = "xpath" THEN "xpath_" \o key
        ELSE key

generateEnhancedKey(rawValue, type, isDynamic, isConditional) ==
    LET key == StripUnderscores(ReplaceNonAlnumRuns(toLowerCase(rawValue), 1, "_"))
        typed == IF type = "class" THEN "class_" \o key
                 ELSE IF type = "role" THEN toLowerCase(rawValue) \o "_role"
                 ELSE IF type = "placeholder" THEN key \o "_input"
                 ELSE IF type = "xpath" THEN "xpath_" \o key
                 ELSE key
    IN  IF isDynamic /\ isConditional THEN typed \o "_dynamic_conditional"
        ELSE IF isDynamic THEN typed \o "_dynamic"
        ELSE IF isConditional THEN typed \o "_conditional"
        ELSE typed

generateFragileWarning(element, rawValue, type) ==
    LET slug == ReplaceNonAlnumRuns(toLowerCase(rawValue), 1, "-")
    IN  "FRAGILE LOCATOR WARNING: " \o element \o " with " \o type \o "=\""
            \o rawValue \o "\" lacks stable test attributes. "
            \o "Consider adding data-testid=\"" \o slug \o "\""
            \o " | Alternative: data-test-id=\"" \o slug \o "\""
            \o " | Alternative: data-test=\"" \o slug \o "\""
            \o " | Or add a unique id=\"" \o slug \o "\""

(***************************************************************************)
(* The constants registry: a function from constant names to definitions.  *)
(***************************************************************************)
ConstNameSet == UpperSet \cup {"_"}

NoConstants == [x \in {} |-> [name |-> "", value |-> "", type |-> "", file |-> ""]]

Unresolved(value) == [resolved |-> value, constantName |-> ""]

\* value.match(/\$\{([A-Z_]+)\}/): the captured name, or ""
TemplateLiteralName(value) ==
    LET hits == {i \in 1..Len(value) :
                    /\ StartsWithAt(value, i, "${")
                    /\ SkipWhile(value, ConstNameSet, i + 2) > i + 2
                    /\ StartsWithAt(value, SkipWhile(value, ConstNameSet, i + 2), "}")}
        i == Min(hits)
    IN  IF hits = {} THEN ""
        ELSE SubSeq(value, i + 2, SkipWhile(value, ConstNameSet, i + 2) - 1)

\* value.match(/\.([A-Z_]+)$/): the captured name, or ""
PropertyName(value) ==
    LET r == IF value = "" THEN 1 ELSE BackWhile(value, ConstNameSet, Len(value))
    IN  IF value /= "" /\ r <= Len(value) /\ r >= 2 /\ Char(value, r - 1) = "."
        THEN SubSeq(value, r, Len(value)) ELSE ""

\* value.replace(sub, by): the first occurrence
ReplaceFirst(value, sub, by) ==
    LET i == IndexFrom(value, sub, 1)
    IN  IF i = 0 THEN value
        ELSE SubSeq(value, 1, i - 1) \o by \o SubSeq(value, i + Len(sub), Len(value))

resolveConstantReference(value, registry) ==
    LET whole == IF value /= "" /\ CharsOf(value) \subseteq ConstNameSet THEN value ELSE ""
        lit == TemplateLiteralName(value)
        prop == PropertyName(value)
    IN  IF whole /= "" /\ whole \in DOMAIN registry
        THEN [resolved |-> registry[whole].value, constantName |-> whole]
        ELSE IF lit /= "" /\ lit \in DOMAIN registry
        THEN [resolved |-> ReplaceFirst(value, "${" \o lit \o "}", registry[lit].value),
              constantName |-> lit]
        ELSE IF prop /= "" /\ prop \in DOMAIN registry
        THEN [resolved |-> registry[prop].value, constantName |-> prop]
        ELSE Unresolved(value)

(***************************************************************************)
(* The fallback pass (detectElementsWithoutTestAttributes).                *)
(***************************************************************************)
\* str.split(' ')
RECURSIVE SplitOnSpace(_, _)
SplitOnSpace(str, from) ==
    LET i == IndexFrom(str, " ", from)
    IN  IF i = 0 THEN <<SubSeq(str, from, Len(str))>>
        ELSE <<SubSeq(str, from, i - 1)>> \o SplitOnSpace(str, i + 1)

\* the characters lo..hi of str that are in keep, by halves
RECURSIVE KeepRange(_, _, _, _)
KeepRange(str, keep, lo, hi) ==
    IF lo > hi THEN ""
    ELSE IF lo = hi THEN (IF Char(str, lo) \in keep THEN Char(str, lo) ELSE "")
    ELSE KeepRange(str, keep, lo, (lo + hi) \div 2)
             \o KeepRange(str, keep, (lo + hi) \div 2 + 1, hi)

\* str.substring(0, n)
Prefix(str, n) == SubSeq(str, 1, IF n < Len(str) THEN n ELSE Len(str))

RECURSIVE JoinAnd(_)
JoinAnd(conditions) ==
    IF Len(conditions) = 1 THEN conditions[1]
    ELSE conditions[1] \o " and " \o JoinAnd(Tail(conditions))

NullXPath == [ok |-> FALSE, xpath |-> ""]

generateFallbackXPath(element, attributes, textContent) ==
    LET class == Get(attributes, "class")
        LongEnough(c) == Len(c) > 2
        classes == SelectSeq(SplitOnSpace(class, 1), LongEnough)
        byClass ==
            IF /\ class /= "" /\ ~ includes(class, "{")
               /\ Len(SplitOnSpace(class, 1)) <= 3
               /\ Len(classes) > 0
            THEN <<"contains(@class,'" \o classes[1] \o "')">> ELSE <<>>
        cleanText ==
            Prefix(KeepRange(textContent, CharsOf(textContent) \ DoubleSingle,
                             1, Len(textContent)), 30)
        byText ==
            IF /\ textContent /= ""
               /\ element \in {"button", "a", "h1", "h2", "h3", "h4", "h5", "h6"}
               /\ cleanText /= ""
            THEN <<"contains(text(),'" \o cleanText \o "')">> ELSE <<>>
        byType ==
            IF element = "input" /\ Get(attributes, "type") /= ""
            THEN <<"@type='" \o Get(attributes, "type") \o "'">> ELSE <<>>
        byPlaceholder ==
            IF /\ Get(attributes, "placeholder") /= ""
               /\ ~ includes(Get(attributes, "placeholder"), "{")
            THEN <<"@placeholder='" \o Get(attributes, "placeholder") \o "'">> ELSE <<>>
        byHref ==
            IF /\ element = "a" /\ Get(attributes, "href") /= ""
               /\ ~ includes(Get(attributes, "href"), "{")
               /\ ~ includes(Get(attributes, "href"), "$")
            THEN <<"@href='" \o Get(attributes, "href") \o "'">> ELSE <<>>
        conditions == byClass \o byText \o byType \o byPlaceholder \o byHref
    IN  IF conditions = <<>> THEN NullXPath
        ELSE [ok |-> TRUE,
              xpath |-> "//" \o element \o "[" \o JoinAnd(conditions) \o "]"]

\* .replace(/\s+/g, '-')
RECURSIVE DashSpaces(_, _)
DashSpaces(str, from) ==
    LET i == IndexOfAny(str, SpaceSet, from)
    IN  IF i = 0 THEN SubSeq(str, from, Len(str))
        ELSE SubSeq(str, from, i - 1) \o "-"
                 \o DashSpaces(str, SkipWhile(str, SpaceSet, i))

elementSuggestions ==
    [button |-> "button", input |-> "input", textarea |-> "textarea",
     select |-> "select", a |-> "link", h1 |-> "heading", h2 |-> "heading",
     h3 |-> "heading", h4 |-> "heading", h5 |-> "heading", h6 |-> "heading"]

generateSuggestedTestId(element, textContent) ==
    LET lowered == toLowerCase(textContent)
        kept == KeepRange(lowered, LowerAlnumSet \cup SpaceSet, 1, Len(lowered))
        cleanText == Prefix(DashSpaces(kept, 1), 20)
    IN  IF cleanText /= "" THEN cleanText \o "-" \o element
        ELSE IF element \in DOMAIN elementSuggestions THEN elementSuggestions[element]
        ELSE element

\* interactiveElementPatterns (flags gs): the opening literal, what the tag
\* must hold before its first `>`, and the closing tag after the text
interactiveElementPatterns ==
    << [open |-> "<button", need |-> "", close |-> "</button>"],
       [open |-> "<input", need |-> "type", close |-> ""],
       [open |-> "<input", need |-> "", close |-> ""],
       [open |-> "<textarea", need |-> "", close |-> "</textarea>"],
       [open |-> "<select", need |-> "", close |-> "</select>"],
       [open |-> "<a", need |-> "href", close |-> "</a>"],
       [open |-> "<h", need |-> "level", close |-> "</h" ] >>

\* the word of the last  type\s*=\s*["'](button|submit|reset)["']  within
\* positions lo..hi of content, or ""
ButtonTypeIn(content, lo, hi) ==
    LET WordAt(t) ==
            LET a == SkipWhile(content, SpaceSet, t + 4)
                b == SkipWhile(content, SpaceSet, a + 1)
                w == CHOOSE w \in {"button", "submit", "reset", ""} :
                        \/ /\ w /= ""
                           /\ StartsWithAt(content, b + 1, w)
                           /\ b + 1 + Len(w) <= hi
                           /\ Char(content, b + 1 + Len(w)) \in DoubleSingle
                        \/ /\ w = ""
                           /\ \A v \in {"button", "submit", "reset"} :
                                 ~ /\ StartsWithAt(content, b + 1, v)
                                   /\ b + 1 + Len(v) <= hi
                                   /\ Char(content, b + 1 + Len(v)) \in DoubleSingle
            IN  IF /\ StartsWithAt(content, t, "type")
                   /\ a <= hi /\ Char(content, a) = "="
                   /\ b <= hi /\ Char(content, b) \in DoubleSingle
                THEN w ELSE ""
        hits == {t \in lo..hi : WordAt(t) /= ""}
    IN  IF hits = {} THEN "" ELSE WordAt(Max(hits))

NoElementMatch == [index |-> 0, end |-> 0, full |-> "", tag |-> "", text |-> ""]

\* the match of interactive pattern fp that starts at position i, or
\* NoElementMatch
ElementMatchAt(content, fp, i) ==
    LET level == fp.need = "level"
        nameEnd == i + Len(fp.open) + (IF level THEN 1 ELSE 0)
        g == IndexFrom(content, ">", nameEnd)
        h == IndexFrom(content, "<", g + 1)
        close == IF level THEN 5 ELSE Len(fp.close)
        closed ==
            IF fp.close = "" THEN TRUE
            ELSE /\ h /= 0
                 /\ StartsWithAt(content, h, fp.close)
                 /\ level => /\ h + 4 <= Len(content)
                             /\ Char(content, h + 3) \in {"1", "2", "3", "4", "5", "6"}
                             /\ Char(content, h + 4) = ">"
        word == ButtonTypeIn(content, nameEnd, g - 1)
        ok == /\ StartsWithAt(content, i, fp.open)
              /\ level => Char(content, i + 2) \in {"1", "2", "3", "4", "5", "6"}
              /\ g /= 0
              /\ fp.need = "href" => includes(SubSeq(content, nameEnd, g - 1), "href")
              /\ fp.need = "type" => word /= ""
              /\ closed
        end == IF fp.close = "" THEN g ELSE h + close - 1
    IN  IF ok
        THEN [index |-> i, end |-> end, full |-> SubSeq(content, i, end),
              tag |-> SubSeq(content, i + 1, nameEnd - 1),
              text |-> IF fp.need = "type" THEN word
                       ELSE IF fp.close = "" \/ fp.open \in {"<textarea", "<select"}
                       THEN "" ELSE SubSeq(content, g + 1, h - 1)]
        ELSE NoElementMatch

RECURSIVE ElementMatchesFrom(_, _, _)
\* the match at position i, if there is one, and the matches after it
ElementMatchesAfter(content, fp, i, m) ==
    IF m = NoElementMatch THEN ElementMatchesFrom(content, fp, i + 1)
    ELSE <<m>> \o ElementMatchesFrom(content, fp, m.end + 1)

\* templateContent.matchAll(pattern) from position `from`
ElementMatchesFrom(content, fp, from) ==
    IF IndexFrom(content, fp.open, from) = 0 THEN <<>>
    ELSE ElementMatchesAfter(content, fp, IndexFrom(content, fp.open, from),
                             ElementMatchAt(content, fp,
                                            IndexFrom(content, fp.open, from)))

\* robustAttributes.some((attr) => fullElement.includes(`${attr}=`) || ...)
HasTestAttribute(fullElement) ==
    \E i \in 1..Len(robustAttributes) :
        \/ includes(fullElement, robustAttributes[i] \o "=")
        \/ includes(fullElement, ":" \o robustAttributes[i] \o "=")
        \/ includes(fullElement, "v-bind:" \o robustAttributes[i] \o "=")

(***************************************************************************)
(* Records and the grouped table.  groupedLocators is a function from key  *)
(* groups to tables, a table a function from keys to records; discovered   *)
(* is the sequence of discovery lines the extractor logs, one per stored   *)
(* record, with the position of the match that produced it and the list of *)
(* patterns the match is of.                                               *)
(***************************************************************************)
\* mutant: the selector of an xpath record is escaped when it is stored
LocatorInfo_EscapedXPath(selector_, type, element, rawValue, classes, warning, isDynamic, isConditional, vueDirectives, customComponent, parentContext, resolvedFromConstant) ==
    [selector |-> IF type = "xpath" THEN "xpath=" \o selector_ ELSE selector_,
     type |-> type, element |-> element,
     rawValue |-> rawValue, robustness |-> classes.robustness,
     testRelevance |-> classes.testRelevance, warning |-> warning,
     isDynamic |-> isDynamic, isConditional |-> isConditional,
     vueDirectives |-> vueDirectives, customComponent |-> customComponent,
     parentContext |-> parentContext,
     resolvedFromConstant |-> resolvedFromConstant]

LocatorInfo(selector_, type, element, rawValue, classes, warning, isDynamic, isConditional, vueDirectives, customComponent, parentContext, resolvedFromConstant) ==
    [selector |-> selector_, type |-> type, element |-> element,
     rawValue |-> rawValue, robustness |-> classes.robustness,
     testRelevance |-> classes.testRelevance, warning |-> warning,
     isDynamic |-> isDynamic, isConditional |-> isConditional,
     vueDirectives |-> vueDirectives, customComponent |-> customComponent,
     parentContext |-> parentContext,
     resolvedFromConstant |-> resolvedFromConstant]

NoGroups == [x \in {} |-> [y \in {} |-> 0]]
NoTable == [y \in {} |-> 0]

\* groupedLocators[keyGroup] || {}
Table(groupedLocators, keyGroup) ==
    IF keyGroup \in DOMAIN groupedLocators THEN groupedLocators[keyGroup] ELSE NoTable

\* groupedLocators[keyGroup] = groupedLocators[keyGroup] || {}
\* groupedLocators[keyGroup][key] = locatorInfo, and the discovery line
Store(st, keyGroup, key, info, at, by) ==
    [st EXCEPT
       !.groupedLocators =
           Put(st.groupedLocators, keyGroup,
               Put(Table(st.groupedLocators, keyGroup), key, info)),
       !.discovered =
           Append(st.discovered,
                  [keyGroup |-> keyGroup, key |-> key, type |-> info.type,
                   rawValue |-> info.rawValue, at |-> at, by |-> by,
                   info |-> info])]

\* lines 1394-1405: the warning of a record
Warning(robustness, element, rawValue, type, finalIsDynamic, isConditional) ==
    IF robustness = "fragile"
    THEN generateFragileWarning(element, rawValue, type)
             \o (IF finalIsDynamic
                 THEN " | Element may be repeated (v-for detected)" ELSE "")
             \o (IF isConditional
                 THEN " | Element may not always be present (conditional rendering detected)"
                 ELSE "")
    ELSE ""

\* lines 1376-1439: the selector, the classification, the key and the record
StoreMatch(st, pat, match, keyGroup, context, element, rawValue, resolvedFromConstant, dir, finalIsDynamic, selectorResult, classes) ==
    IF ~ selectorResult.ok THEN st
    ELSE Store(st, keyGroup,
               generateEnhancedKey(rawValue, pat.type, finalIsDynamic, dir.isConditional),
               LocatorInfo(selectorResult.selector, pat.type, element, rawValue, classes,
                           Warning(classes.robustness, element, rawValue, pat.type,
                                   finalIsDynamic, dir.isConditional),
                           finalIsDynamic, dir.isConditional, dir.directives,
                           isCustomComponent(element), context.parentContext,
                           resolvedFromConstant),
               match.end, "locatorPatterns")

\* lines 1361-1384: the directives, the selector and the classification
ClassifyMatch(st, pat, match, keyGroup, context, element, rawValue, resolvedFromConstant, attributes, dir) ==
    StoreMatch(st, pat, match, keyGroup, context, element, rawValue,
               resolvedFromConstant, dir, dir.isDynamic \/ pat.isDynamic,
               selector(pat, rawValue), classifyElement(element, attributes))

\* lines 1353-1364: attributes.resolvedFromConstant and attributes[type]
TrackMatch(st, pat, match, keyGroup, context, ext, rawValue, resolvedFromConstant) ==
    ClassifyMatch(st, pat, match, keyGroup, context, ext.element, rawValue,
                  resolvedFromConstant,
                  Put(IF resolvedFromConstant /= ""
                      THEN Put(ext.attributes, "resolvedFromConstant",
                               resolvedFromConstant)
                      ELSE ext.attributes,
                      pat.type, rawValue),
                  detectVueDirectives(Get(ext.attributes, "fullAttributeString")))

\* lines 1334-1341: rawValue and resolvedFromConstant
ResolveMatch(st, pat, match, keyGroup, context, ext, res) ==
    TrackMatch(st, pat, match, keyGroup, context, ext,
               IF res.constantName /= "" THEN res.resolved ELSE match.value,
               IF res.constantName /= ""
               THEN res.constantName \o " -> " \o res.resolved ELSE "")

\* lines 1329-1439: the body of the loop over the matches of one pattern
ProcessMatch(st, pat, match, normalizedTemplate, keyGroup, registry) ==
    ResolveMatch(st, pat, match, keyGroup,
                 analyzeElementContext(normalizedTemplate, match.index),
                 extractElementWithAttributesEnhanced(match.index, normalizedTemplate),
                 resolveConstantReference(match.value, registry))

RECURSIVE ProcessMatches(_, _, _, _, _, _)
ProcessMatches(st, pat, matches, normalizedTemplate, keyGroup, registry) ==
    IF matches = <<>> THEN st
    ELSE ProcessMatches(
             ProcessMatch(st, pat, Head(matches), normalizedTemplate, keyGroup, registry),
             pat, Tail(matches), normalizedTemplate, keyGroup, registry)

\* lines 1315-1440: for (const {...} of locatorPatterns), from pattern p on
RECURSIVE ProcessPatterns(_, _, _, _, _)
ProcessPatterns(st, p, normalizedTemplate, keyGroup, registry) ==
    IF p > Len(locatorPatterns) THEN st
    ELSE ProcessPatterns(
             ProcessMatches(st, locatorPatterns[p],
                            matchAll(normalizedTemplate, locatorPatterns[p]),
                            normalizedTemplate, keyGroup, registry),
             p + 1, normalizedTemplate, keyGroup, registry)

\* lines 941-958: the warning of a fallback record
FallbackWarning(robustness, element, textContent, suggested) ==
    IF robustness = "fragile"
    THEN "FRAGILE LOCATOR WARNING: " \o element
             \o (IF textContent /= ""
                 THEN " with text=\"" \o textContent \o "\"" ELSE "")
             \o " lacks stable test attributes. Consider adding data-testid=\""
             \o suggested \o "\" | Alternative: data-test-id=\"" \o suggested
             \o "\" | Alternative: data-test=\"" \o suggested
             \o "\" | Or add a unique id=\"" \o suggested \o "\""
    ELSE ""

\* the record is stored whether or not the table has the key
StoreElement_Overwrite(st, match, keyGroup, context, ext, xpath, dir, key, classes) ==
    Store(st, keyGroup, key,
          LocatorInfo(xpath, "xpath", ext.element, xpath, classes,
                      FallbackWarning(classes.robustness, ext.element, match.text,
                                      generateSuggestedTestId(ext.element, match.text)),
                      dir.isDynamic, dir.isConditional, dir.directives,
                      isCustomComponent(ext.element), context.parentContext, ""),
          match.index, "interactiveElementPatterns")

\* lines 922-967: the key, the check for a record under it, and the record
StoreElement(st, match, keyGroup, context, ext, xpath, dir, key, classes) ==
    IF key \in DOMAIN Table(st.groupedLocators, keyGroup) THEN st
    ELSE Store(st, keyGroup, key,
               LocatorInfo(xpath, "xpath", ext.element, xpath, classes,
                           FallbackWarning(classes.robustness, ext.element, match.text,
                                           generateSuggestedTestId(ext.element,
                                                                   match.text)),
                           dir.isDynamic, dir.isConditional, dir.directives,
                           isCustomComponent(ext.element), context.parentContext, ""),
               match.index, "interactiveElementPatterns")

\* lines 908-932: the fallback XPath, the directives and the classification
LocateElement(st, match, keyGroup, context, ext, xpath, dir) ==
    IF ~ xpath.ok THEN st
    ELSE StoreElement(st, match, keyGroup, context, ext, xpath.xpath, dir,
                      generateEnhancedKey(xpath.xpath, "xpath", dir.isDynamic,
                                          dir.isConditional),
                      classifyElement(ext.element,
                                      Put(ext.attributes, "xpath", xpath.xpath)))

\* lines 901-919: the context and the element
ExtractElement(st, match, keyGroup, context, ext) ==
    LocateElement(st, match, keyGroup, context, ext,
                  generateFallbackXPath(ext.element, ext.attributes, trim(match.text)),
                  detectVueDirectives(Get(ext.attributes, "fullAttributeString")))

\* lines 884-983: the body of the loop over the matches of one interactive
\* pattern
ProcessElementMatch(st, match, templateContent, keyGroup) ==
    IF HasTestAttribute(match.full) THEN st
    ELSE ExtractElement(st, match, keyGroup,
                        analyzeElementContext(templateContent, match.index),
                        extractElementWithAttributesEnhanced(match.index,
                                                             templateContent))

RECURSIVE ProcessElementMatches(_, _, _, _)
ProcessElementMatches(st, matches, templateContent, keyGroup) ==
    IF matches = <<>> THEN st
    ELSE ProcessElementMatches(
             ProcessElementMatch(st, Head(matches), templateContent, keyGroup),
             Tail(matches), templateContent, keyGroup)

RECURSIVE detectElementsWithoutTestAttributes(_, _, _, _)
detectElementsWithoutTestAttributes(st, p, templateContent, keyGroup) ==
    IF p > Len(interactiveElementPatterns) THEN st
    ELSE detectElementsWithoutTestAttributes(
             ProcessElementMatches(
                 st, ElementMatchesFrom(templateContent, interactiveElementPatterns[p], 1),
                 templateContent, keyGroup),
             p + 1, templateContent, keyGroup)

\* lines 1126-1135: the warning for the component whose tag starts at i
CustomComponentWarning(templateContent, filename, componentName, line) ==
    [file |-> filename, component |-> componentName, line |-> line,
     message |-> "Custom component <" \o componentName \o "> at line "
                     \o ToString(line) \o " - locator not extracted. Review component source or ensure it passes data-testid down to root element."]

\* the positions from `from` on where  <([A-Z][a-zA-Z0-9-]*)[^>]*>  matches
ComponentTagsFrom(templateContent, from) ==
    {i \in from..(Len(templateContent) - 1) :
        /\ Char(templateContent, i) = "<"
        /\ Char(templateContent, i + 1) \in UpperSet
        /\ IndexFrom(templateContent, ">", i + 2) /= 0}

RECURSIVE CustomComponentMatches(_, _, _)
\* the warning for the match at i, and those for the matches after it
CustomComponentsAfter(templateContent, filename, i) ==
    << CustomComponentWarning(
           templateContent, filename,
           SubSeq(templateContent, i + 1,
                  SkipWhile(templateContent, TagNameSet, i + 1) - 1),
           analyzeElementContext(templateContent, i).lineNumber) >>
        \o CustomComponentMatches(templateContent, filename,
                                  IndexFrom(templateContent, ">", i + 2) + 1)

\* templateContent.matchAll(/<([A-Z][a-zA-Z0-9-]*)[^>]*>/g) from position
\* `from`, as custom component warnings
CustomComponentMatches(templateContent, filename, from) ==
    IF ComponentTagsFrom(templateContent, from) = {} THEN <<>>
    ELSE CustomComponentsAfter(templateContent, filename,
                               Min(ComponentTagsFrom(templateContent, from)))

\* lines 1313-1452: the loop over the patterns, then the fallback pass
ProcessNormalized(st, normalizedTemplate, keyGroup, registry) ==
    detectElementsWithoutTestAttributes(
        ProcessPatterns(st, 1, normalizedTemplate, keyGroup, registry),
        1, normalizedTemplate, keyGroup)

processTemplateContent(st, templateContent, keyGroup, filename, registry) ==
    ProcessNormalized(
        [st EXCEPT !.customComponentWarnings =
            @ \o CustomComponentMatches(templateContent, filename, 1)],
        normalizeTemplateForParsing(templateContent), keyGroup, registry)

(***************************************************************************)
(* The constants pass (extractConstants).                                  *)
(***************************************************************************)
Quotes == DoubleSingle \cup Backtick

roleValues ==
    {"button", "link", "textbox", "heading", "banner", "navigation", "main",
     "complementary", "contentinfo", "search", "form", "dialog", "alert",
     "status", "log", "marquee", "timer", "alertdialog", "application",
     "article", "cell", "columnheader", "definition", "directory", "document",
     "group", "img", "list", "listitem", "math", "note", "presentation",
     "region", "row", "rowgroup", "rowheader", "separator", "slider",
     "spinbutton", "table", "tablist", "tab", "tabpanel", "toolbar", "tooltip",
     "tree", "treegrid", "treeitem"}

\* does one of the words start in name at some position >= least + 1
HasWordAfter(name, words, least) ==
    \E i \in (least + 1)..Len(name) : \E w \in words : StartsWithAt(name, i, w)

\* constPatterns: what each of the six patterns asks of the name and the
\* value of a declaration  const NAME = 'value'
ConstPatternAccepts(p, name, value) ==
    CASE p = 1 -> HasWordAfter(name, {"ROLE", "LABEL", "TESTID", "TEST_ID"}, 1)
      [] p = 2 -> HasWordAfter(name, {"ROLE", "LABEL", "TESTID", "TEST_ID"}, 0)
      [] p = 3 -> value \in roleValues
      [] p = 4 -> CharsOf(value) \subseteq LetterSet \cup DigitSet \cup SpaceSet
      [] p = 5 -> HasWordAfter(name, {"NAME", "FIELD"}, 0)
      [] p = 6 -> HasWordAfter(name, {"PLACEHOLDER", "HINT"}, 0)

NoDeclaration == [end |-> 0, name |-> "", value |-> ""]

\* the declaration  const\s+([A-Z_]+)\s*=\s*['"`]([^'"`]+)['"`]  that starts
\* at position i, or NoDeclaration
DeclarationAt(content, i) ==
    LET a == SkipWhile(content, SpaceSet, i + 5)
        b == SkipWhile(content, ConstNameSet, a)
        c == SkipWhile(content, SpaceSet, b)
        d == SkipWhile(content, SpaceSet, c + 1)
        e == IndexOfAny(content, Quotes, d + 1)
    IN  IF /\ StartsWithAt(content, i, "const")
           /\ a > i + 5 /\ b > a
           /\ c <= Len(content) /\ Char(content, c) = "="
           /\ d <= Len(content) /\ Char(content, d) \in Quotes
           /\ e > d + 1
        THEN [end |-> e, name |-> SubSeq(content, a, b - 1),
              value |-> SubSeq(content, d + 1, e - 1)]
        ELSE NoDeclaration

\* content.matchAll(constPatterns[p]) from position `from`
RECURSIVE ConstMatchesFrom(_, _, _)
ConstMatchesFrom(content, p, from) ==
    LET i == IndexFrom(content, "const", from)
        m == DeclarationAt(content, i)
    IN  IF i = 0 THEN <<>>
        ELSE IF m.end /= 0 /\ ConstPatternAccepts(p, m.name, m.value)
        THEN <<m>> \o ConstMatchesFrom(content, p, m.end + 1)
        ELSE ConstMatchesFrom(content, p, i + 1)

\* lines 719-793: the type of a constant
ConstantType(constantName, constantValue) ==
    IF includes(constantName, "ROLE") \/ toLowerCase(constantValue) \in roleValues
    THEN "role"
    ELSE IF includes(constantName, "LABEL") THEN "label"
    ELSE IF includes(constantName, "TESTID") \/ includes(constantName, "TEST_ID")
    THEN "testid"
    ELSE IF includes(constantName, "NAME") \/ includes(constantName, "FIELD")
    THEN "name"
    ELSE IF includes(constantName, "PLACEHOLDER") \/ includes(constantName, "HINT")
    THEN "placeholder"
    ELSE "other"

\* constantsRegistry.set(constantName, {...}) for each match
RECURSIVE SetConstants(_, _, _)
SetConstants(registry, matches, filename) ==
    IF matches = <<>> THEN registry
    ELSE SetConstants(
             Put(registry, Head(matches).name,
                 [name |-> Head(matches).name, value |-> Head(matches).value,
                  type |-> ConstantType(Head(matches).name, Head(matches).value),
                  file |-> filename]),
             Tail(matches), filename)

RECURSIVE ExtractConstantsFrom(_, _, _, _)
ExtractConstantsFrom(registry, p, content, filename) ==
    IF p > 6 THEN registry
    ELSE ExtractConstantsFrom(
             SetConstants(registry, ConstMatchesFrom(content, p, 1), filename),
             p + 1, content, filename)

extractConstants(registry, content, filename) ==
    ExtractConstantsFrom(registry, 1, content, filename)

(***************************************************************************)
(* JS/TS files (processJavaScriptContent).                                 *)
(***************************************************************************)
NoCall == [end |-> 0, element |-> "", propsString |-> ""]

\* the match of  PREFIX\(\s*['"`](\w+)['"`]\s*,\s*{([^}]*)}  that starts at
\* position i, PREFIX being h or createElement, or NoCall
CreateElementAt(content, prefix, i) ==
    LET a == SkipWhile(content, SpaceSet, i + Len(prefix))
        e == SkipWhile(content, WordSet, a + 1)
        b == SkipWhile(content, SpaceSet, e + 1)
        c == SkipWhile(content, SpaceSet, b + 1)
        d == IndexFrom(content, "}", c + 1)
    IN  IF /\ StartsWithAt(content, i, prefix)
           /\ a <= Len(content) /\ Char(content, a) \in Quotes
           /\ e > a + 1 /\ e <= Len(content) /\ Char(content, e) \in Quotes
           /\ b <= Len(content) /\ Char(content, b) = ","
           /\ c <= Len(content) /\ Char(content, c) = "{"
           /\ d /= 0
        THEN [end |-> d, element |-> SubSeq(content, a + 1, e - 1),
              propsString |-> SubSeq(content, c + 1, d - 1)]
        ELSE NoCall

RECURSIVE CreateElementMatchesFrom(_, _, _)
CreateElementMatchesFrom(content, prefix, from) ==
    LET i == IndexFrom(content, prefix, from)
        m == CreateElementAt(content, prefix, i)
    IN  IF i = 0 THEN <<>>
        ELSE IF m.end /= 0
        THEN <<m>> \o CreateElementMatchesFrom(content, prefix, m.end + 1)
        ELSE CreateElementMatchesFrom(content, prefix, i + 1)

\* propsString.match(/['"`]?NAME['"`]?\s*:\s*['"`]([^'"`]+)['"`]/): the
\* captured value, or ""
PropValue(propsString, name) ==
    LET ValueAt(i) ==
            LET j == i + Len(name)
                k == SkipWhile(propsString, SpaceSet,
                               IF j <= Len(propsString) /\ Char(propsString, j) \in Quotes
                               THEN j + 1 ELSE j)
                l == SkipWhile(propsString, SpaceSet, k + 1)
                e == IndexOfAny(propsString, Quotes, l + 1)
            IN  IF /\ StartsWithAt(propsString, i, name)
                   /\ k <= Len(propsString) /\ Char(propsString, k) = ":"
                   /\ l <= Len(propsString) /\ Char(propsString, l) \in Quotes
                   /\ e > l + 1
                THEN SubSeq(propsString, l + 1, e - 1) ELSE ""
        hits == {i \in 1..Len(propsString) : ValueAt(i) /= ""}
    IN  IF hits = {} THEN "" ELSE ValueAt(Min(hits))

JsLocatorInfo(selector_, type, element, rawValue, parentContext) ==
    LocatorInfo(selector_, type, element, rawValue,
                [robustness |-> "robust", testRelevance |-> "high"], "",
                TRUE, FALSE, <<>>, FALSE, parentContext, "")

\* lines 586-609: rawValue, type, selector, key and the record
StoreCreateElement(st, match, keyGroup, rawValue, type) ==
    Store(st, keyGroup, generateEnhancedKey(rawValue, type, FALSE, FALSE),
          JsLocatorInfo(IF type = "data-testid"
                        THEN "[data-testid=\"" \o rawValue \o "\"]"
                        ELSE "#" \o rawValue,
                        type, match.element, rawValue, "JS createElement"),
          match.end, "createElementPatterns")

\* lines 578-586: testIdMatch and idMatch
MatchProps(st, match, keyGroup, testId, id) ==
    IF testId = "" /\ id = "" THEN st
    ELSE StoreCreateElement(st, match, keyGroup,
                            IF testId /= "" THEN testId ELSE id,
                            IF testId /= "" THEN "data-testid" ELSE "id")

\* lines 574-612: the body of the loop over the createElement matches
ProcessCreateElement(st, match, keyGroup) ==
    MatchProps(st, match, keyGroup, PropValue(match.propsString, "data-testid"),
               PropValue(match.propsString, "id"))

RECURSIVE ProcessCreateElements(_, _, _)
ProcessCreateElements(st, matches, keyGroup) ==
    IF matches = <<>> THEN st
    ELSE ProcessCreateElements(ProcessCreateElement(st, Head(matches), keyGroup),
                               Tail(matches), keyGroup)

\* the end of the match of  Q[^Q]*<(\w+)[^>]*([^Q]*)Q  that starts at the
\* quote at position i, or 0: the last `<` before the next quote is tried
\* first, the tag's [^>]* runs up to the next `>`, and the closing quote is
\* the first one from there on, or failing that the last one before it
TemplateStringEnd(content, i) ==
    LET q == Char(content, i)
        n == IF IndexFrom(content, q, i + 1) = 0 THEN Len(content) + 1
             ELSE IndexFrom(content, q, i + 1)
        EndFor(lt) ==
            LET e == SkipWhile(content, WordSet, lt + 1)
                g == IF IndexFrom(content, ">", e) = 0 THEN Len(content) + 1
                     ELSE IndexFrom(content, ">", e)
                after == IndexFrom(content, q, g)
                before == {b \in e..(g - 1) : Char(content, b) = q}
            IN  IF after /= 0 THEN after
                ELSE IF before /= {} THEN Max(before) ELSE 0
        tags == {lt \in (i + 1)..(n - 1) :
                    /\ Char(content, lt) = "<"
                    /\ lt + 1 <= Len(content) /\ Char(content, lt + 1) \in WordSet
                    /\ EndFor(lt) /= 0}
    IN  IF tags = {} THEN 0 ELSE EndFor(Max(tags))

\* content.matchAll(templateStringPatterns[..]) from position `from`, the
\* quotes being those of the pattern; the matched texts
RECURSIVE TemplateStringsFrom(_, _, _)
TemplateStringsFrom(content, quotes, from) ==
    LET i == IndexOfAny(content, quotes, from)
        e == TemplateStringEnd(content, i)
    IN  IF i = 0 THEN <<>>
        ELSE IF e /= 0
        THEN <<[index |-> i, html |-> SubSeq(content, i, e)]>>
                 \o TemplateStringsFrom(content, quotes, e + 1)
        ELSE TemplateStringsFrom(content, quotes, i + 1)

\* htmlContent.matchAll(/data-testid="([^"]+)"/g) from position `from`
RECURSIVE TestIdsFrom(_, _)
TestIdsFrom(htmlContent, from) ==
    LET i == IndexFrom(htmlContent, "data-testid=\"", from)
        e == IndexFrom(htmlContent, "\"", i + 13)
    IN  IF i = 0 THEN <<>>
        ELSE IF e > i + 13
        THEN <<SubSeq(htmlContent, i + 13, e - 1)>> \o TestIdsFrom(htmlContent, e + 1)
        ELSE TestIdsFrom(htmlContent, i + 1)

\* lines 620-640: the loop over the test ids of one template string
RECURSIVE ProcessTestIds(_, _, _, _)
ProcessTestIds(st, testIds, keyGroup, at) ==
    IF testIds = <<>> THEN st
    ELSE ProcessTestIds(
             Store(st, keyGroup,
                   generateEnhancedKey(Head(testIds), "data-testid", FALSE, FALSE),
                   JsLocatorInfo("[data-testid=\"" \o Head(testIds) \o "\"]",
                                 "data-testid", "unknown", Head(testIds),
                                 "JS template string"),
                   at, "templateStringPatterns"),
             Tail(testIds), keyGroup, at)

RECURSIVE ProcessTemplateStrings(_, _, _)
ProcessTemplateStrings(st, matches, keyGroup) ==
    IF matches = <<>> THEN st
    ELSE ProcessTemplateStrings(
             ProcessTestIds(st, TestIdsFrom(Head(matches).html, 1), keyGroup,
                            Head(matches).index),
             Tail(matches), keyGroup)

processJavaScriptContent(st, content, keyGroup) ==
    ProcessTemplateStrings(
        ProcessTemplateStrings(
            ProcessCreateElements(
                ProcessCreateElements(st, CreateElementMatchesFrom(content, "h(", 1),
                                      keyGroup),
                CreateElementMatchesFrom(content, "createElement(", 1), keyGroup),
            TemplateStringsFrom(content, Backtick, 1), keyGroup),
        TemplateStringsFrom(content, DoubleSingle, 1), keyGroup)

\* content.match(/<template[^>]*>([\s\S]*?)<\/template>/): [found, content]
templateMatch(content) ==
    LET Open(i) == IndexFrom(content, ">", i + 9)
        hits == {i \in 1..Len(content) :
                    /\ StartsWithAt(content, i, "<template")
                    /\ Open(i) /= 0
                    /\ IndexFrom(content, "</template>", Open(i) + 1) /= 0}
        g == Open(Min(hits))
    IN  IF hits = {} THEN [found |-> FALSE, templateContent |-> ""]
        ELSE [found |-> TRUE,
              templateContent |->
                  SubSeq(content, g + 1,
                         IndexFrom(content, "</template>", g + 1) - 1)]

(***************************************************************************)
(* The scan sets: what fast-glob finds under baseDir.  A file is a path,   *)
(* its text, and how reading it goes: "ok", "fails" (unreadable), or       *)
(* "flaky" (a read may fail or succeed).                                   *)
(***************************************************************************)
Snippets ==
    << "<button data-testid=\"logout-btn\" class=\"btn btn-primary\">Logout</button>",
       "<a href=\"/reports\" class=\"nav-link\">Reports</a>",
       "<li :data-testid=\"row\">x</li>",
       "<span class=\"icon\"></span>",
       "<input id=\"email\" name=\"email\">",
       "<MyWidget id=\"w1\" />",
       "<ul v-for=\"i in n\">\n<!-- rows -->\n<li\n  class=\"item\">A</li>\n</ul>",
       "<h2 :aria-label=\"TITLE_LABEL\" v-if=\"shown\">Hi</h2>" >>

\* templates that are scanned alone
BindingSnippets ==
    { "<li v-for=\"u in users\" :data-testid=\"~user-${u.id}~\">x</li>",
      "<li v-for=\"u in users\" data-testid=\"user-row\">x</li>",
      "<div v-if=\"open\" data-testid=\"panel\">x</div>",
      "<nav role=\"Main Nav\" id=\" \"></nav>",
      "<div data-xpath=\"//ul/li\">x</div><a href=\"/reports\">Reports</a>",
      "<div :class=\"{ on: a }\">x</div>",
      "<p id=\"item-1\">a</p><p id=\"item1\">b</p><p id=\"xpath\">c</p>",
      "<button data-testid = \"save\">Save</button><h2>Save</h2><h2>Save</h2>" }

RECURSIVE TemplatesOf(_)
TemplatesOf(n) ==
    IF n = 0 THEN {""}
    ELSE TemplatesOf(n - 1)
             \cup {t \o Snippets[i] : t \in TemplatesOf(n - 1), i \in 1..Len(Snippets)}

File(path_, content, io) == [path |-> path_, content |-> content, io |-> io]

VueFile(path_, template, io) ==
    File(path_, "<template>" \o template \o "</template>\n<script setup>\nconst CLOSE_LABEL = 'Close'\n</script>", io)

ScriptOnlyVue == File("src/empty.vue", "<script>export default {}</script>", "ok")

ConstantsTs(io) ==
    File("src/constants.ts",
         "export const TITLE_LABEL = 'Main title'\nconst TAB = \"tab\"\n"
             \o "h('button', { 'data-testid': 'save-btn' })\n"
             \o "const row = ~<li data-testid=\"row\">${x}</li>~\n"
             \o "createElement(\"a\", { id: 'home' })\n",
         io)

\* what the two fast-glob calls give for a root: the files under it; no file
\* for a root that does not exist (fast-glob suppresses ENOENT); a rejection
\* for a root that cannot be read
Scan(root, vueFiles, jsFiles) ==
    [root |-> root, vueFiles |-> vueFiles, jsFiles |-> jsFiles]

ScanSets ==
    {Scan("ok", <<VueFile("src/App.vue", t, "ok")>>, <<>>) :
        t \in TemplatesOf(MaxSnippets) \cup BindingSnippets}
    \cup {Scan("ok", <<ScriptOnlyVue, VueFile("src\\views\\Home.vue", t, "ok")>>,
                <<ConstantsTs("ok")>>) : t \in TemplatesOf(1)}
    \cup {Scan("ok", <<VueFile("src/App.vue", t, "ok"),
                       VueFile("src/Locked.vue", "<p id=\"x\"></p>", "fails")>>,
                <<>>) : t \in TemplatesOf(1)}
    \cup {Scan("ok", <<VueFile("src/App.vue", t, "flaky")>>,
                <<ConstantsTs("flaky")>>) : t \in TemplatesOf(1)}
    \cup {Scan("ok", <<VueFile("src/Total.vue", "<strong id=\"total\">1</strong>", "ok"),
                       VueFile("src/Sum.vue", "<p id=\"total\">1</p>", "ok")>>,
                <<>>)}
    \cup {Scan("ok", <<VueFile("src/App.vue",
                               "<button :aria-label=\"CLOSE_LABEL\">x</button>", "ok")>>,
                <<File("src/a.ts", "export const CLOSE_LABEL = 'Dismiss'\n", "ok"),
                  File("src/b.ts", "export const CLOSE_LABEL = 'Shut'\n", "ok")>>)}
    \cup {Scan("missing", <<>>, <<>>), Scan("unreadable", <<>>, <<>>)}

\* relative.replace(/\\/g, '/')
RECURSIVE Slashes(_, _)
Slashes(relative, from) ==
    LET i == IndexFrom(relative, "\\", from)
    IN  IF i = 0 THEN SubSeq(relative, from, Len(relative))
        ELSE SubSeq(relative, from, i - 1) \o "/" \o Slashes(relative, i + 1)

Elements == {"button", "a", "li", "span", "h2", "div"}

AttributePairs ==
    { <<"data-testid", "save">>, <<"id", "main">>, <<"id", " ">>,
      <<"name", "email">>, <<"name", "">>, <<"title", "Close">>, <<"alt", "Logo">>,
      <<"role", "tab">>, <<"class", "btn primary">>, <<"class", "icon">>,
      <<"class", "nav-link">>, <<"class", "BTN">>, <<"href", "/reports">>,
      <<"xpath", "//div/span">>, <<"xpath", "//form/div/INPUT[@type='text']">>,
      <<"xpath", "//p[text()='Hi']">>, <<"data-xpath", "//ul/li">>,
      <<"data-xpath", "//div[@class='submit-btn']">> }

(***************************************************************************)
(* The state.                                                              *)
(***************************************************************************)
VARIABLES
    scan,                    \* the files found under baseDir
    pc,                      \* where the invocation of extractLocatorsFromVue is
    idx,                     \* the position of the current loop in its file list
    constantsRegistry,       \* the module's registry of constants
    groupedLocators,         \* the invocation's table
    warnings,                \* the invocation's list of warnings
    customComponentWarnings, \* the invocation's list of custom component warnings
    discovered,              \* the discovery lines logged by the invocation
    result,                  \* what the last invocation returned
    previous,                \* what the invocation before it returned
    runs,                    \* the number of invocations started
    exitCode,                \* the exit code of the command line program
    output,                  \* the files written under ./output
    summary,                 \* the analysis summary printed
    clsElement,              \* classifyElement's first argument
    clsAttributes,           \* classifyElement's second argument
    classified,              \* what classifyElement returned for them
    before,                  \* what it returned before the last attribute was added
    added,                   \* the name of the attribute added last
    keyArguments,            \* generateEnhancedKey's arguments
    keyReturned,             \* what generateEnhancedKey returned for them
    selectorArgument,        \* the class selector builder's argument
    selectorReturned,        \* what the builder returned for it
    contextArguments,        \* the content and the index the context resolvers get
    contextReturned,         \* what the context resolvers returned for them
    calls                    \* the invocations that overlap in one process

vars == <<scan, pc, idx, constantsRegistry, groupedLocators, warnings,
          customComponentWarnings, discovered, result, previous, runs, exitCode,
          output, summary, clsElement, clsAttributes, classified, before, added,
          keyArguments, keyReturned, selectorArgument, selectorReturned,
          contextArguments, contextReturned, calls>>

extractorVars == <<scan, pc, idx, constantsRegistry, groupedLocators, warnings,
                   customComponentWarnings, discovered, result, previous, runs,
                   exitCode, output, summary>>

classifierVars == <<clsElement, clsAttributes, classified, before, added>>

keyVars == <<keyArguments, keyReturned>>

selectorVars == <<selectorArgument, selectorReturned>>

contextVars == <<contextArguments, contextReturned>>

unitVars == <<keyVars, selectorVars, contextVars, calls>>

NoResult == [state |-> "none"]
Unclassified == [robustness |-> "", testRelevance |-> ""]
NoOutput == [written |-> FALSE]
NoSummary == [printed |-> FALSE]

ExtractorInit ==
    /\ pc = "idle"
    /\ idx = 1
    /\ constantsRegistry = NoConstants
    /\ groupedLocators = NoGroups
    /\ warnings = <<>>
    /\ customComponentWarnings = <<>>
    /\ discovered = <<>>
    /\ result = NoResult
    /\ previous = NoResult
    /\ runs = 0
    /\ exitCode = -1
    /\ output = NoOutput
    /\ summary = NoSummary

ClassifierInit ==
    /\ clsAttributes = NoAttributes
    /\ classified = Unclassified
    /\ before = Unclassified
    /\ added = ""

KeyArguments(rawValue, type, isDynamic, isConditional) ==
    [rawValue |-> rawValue, type |-> type, isDynamic |-> isDynamic,
     isConditional |-> isConditional]

NoKey == [done |-> FALSE, key |-> ""]

KeyIdle ==
    /\ keyArguments = KeyArguments("", "id", FALSE, FALSE)
    /\ keyReturned = NoKey

NoSelector == [done |-> FALSE, ok |-> FALSE, selector |-> ""]

SelectorIdle ==
    /\ selectorArgument = ""
    /\ selectorReturned = NoSelector

NoContext == [done |-> FALSE]

ContextIdle ==
    /\ contextArguments = [content |-> "", matchIndex |-> 0]
    /\ contextReturned = NoContext

NoCalls == <<>>

Init ==
    /\ scan \in ScanSets
    /\ ExtractorInit
    /\ clsElement = "button"
    /\ ClassifierInit
    /\ KeyIdle
    /\ SelectorIdle
    /\ ContextIdle
    /\ calls = NoCalls

(***************************************************************************)
(* extractLocatorsFromVue, one action per step of its body.                *)
(***************************************************************************)
\* mutant: the first pass reads the Vue files only
AllFiles_VueOnly == scan.vueFiles

\* line 361: [...vueFiles, ...jsFiles]
AllFiles == scan.vueFiles \o scan.jsFiles

\* lines 378-380: the invocation's table and lists are new objects,
\* whatever an earlier invocation left behind
FreshCustomComponentWarnings_Leftover(leftover) == leftover

FreshCustomComponentWarnings(leftover) == <<>>

\* the state the folds of one file's processing work on
Locals ==
    [groupedLocators |-> groupedLocators, warnings |-> warnings,
     customComponentWarnings |-> customComponentWarnings,
     discovered |-> discovered]

SetLocals(st) ==
    /\ groupedLocators' = st.groupedLocators
    /\ warnings' = st.warnings
    /\ customComponentWarnings' = st.customComponentWarnings
    /\ discovered' = st.discovered

\* lines 321-357: entry; the registry is cleared.  A new process starts with
\* an empty registry (line 88), the same process with the one it has.
Call ==
    /\ pc \in {"idle", "returned", "exited"}
    /\ runs < MaxRuns
    /\ scan.root /= "unreadable"
    /\ constantsRegistry' = NoConstants
    /\ pc' = "constants"
    /\ idx' = 1
    /\ runs' = runs + 1
    /\ previous' = result
    /\ result' = NoResult
    /\ exitCode' = -1
    /\ UNCHANGED <<scan, groupedLocators, warnings, customComponentWarnings,
                   discovered, output, summary, classifierVars, unitVars>>

\* lines 326-349: fast-glob rejects for a root that cannot be read, and the
\* promise of extractLocatorsFromVue rejects
GlobFails ==
    /\ pc \in {"idle", "returned", "exited"}
    /\ runs < MaxRuns
    /\ scan.root = "unreadable"
    /\ constantsRegistry' = NoConstants
    /\ pc' = "rejected"
    /\ runs' = runs + 1
    /\ previous' = result
    /\ result' = [state |-> "rejected"]
    /\ exitCode' = -1
    /\ UNCHANGED <<scan, idx, groupedLocators, warnings, customComponentWarnings,
                   discovered, output, summary, classifierVars, unitVars>>

\* lines 361-365: one iteration of the first pass
ScanConstants ==
    /\ pc = "constants"
    /\ idx <= Len(AllFiles)
    /\ AllFiles[idx].io /= "fails"
    /\ constantsRegistry' =
           extractConstants(constantsRegistry, AllFiles[idx].content, AllFiles[idx].path)
    /\ idx' = idx + 1
    /\ UNCHANGED <<scan, pc, groupedLocators, warnings, customComponentWarnings,
                   discovered, result, previous, runs, exitCode, output, summary,
                   classifierVars, unitVars>>

\* lines 367-382: the first pass is over; the table and the lists are created
BeginTemplates ==
    /\ pc = "constants"
    /\ idx > Len(AllFiles)
    /\ groupedLocators' = NoGroups
    /\ warnings' = <<>>
    /\ customComponentWarnings' = FreshCustomComponentWarnings(customComponentWarnings)
    /\ discovered' = <<>>
    /\ pc' = "vue"
    /\ idx' = 1
    /\ UNCHANGED <<scan, constantsRegistry, result, previous, runs, exitCode,
                   output, summary, classifierVars, unitVars>>

\* lines 384-413: one iteration of the loop over the Vue files
ProcessVueFile ==
    /\ pc = "vue"
    /\ idx <= Len(scan.vueFiles)
    /\ scan.vueFiles[idx].io /= "fails"
    /\ LET file == scan.vueFiles[idx]
           keyGroup == Slashes(file.path, 1)
           tm == templateMatch(file.content)
       IN  IF ~ tm.found THEN SetLocals(Locals)
           ELSE SetLocals(processTemplateContent(Locals, tm.templateContent, keyGroup,
                                                 file.path, constantsRegistry))
    /\ idx' = idx + 1
    /\ UNCHANGED <<scan, pc, constantsRegistry, result, previous, runs, exitCode,
                   output, summary, classifierVars, unitVars>>

\* line 416: the loop over the Vue files is over
BeginJs ==
    /\ pc = "vue"
    /\ idx > Len(scan.vueFiles)
    /\ pc' = "js"
    /\ idx' = 1
    /\ UNCHANGED <<scan, constantsRegistry, groupedLocators, warnings,
                   customComponentWarnings, discovered, result, previous, runs,
                   exitCode, output, summary, classifierVars, unitVars>>

\* lines 416-430: one iteration of the loop over the JS/TS files
ProcessJsFile ==
    /\ pc = "js"
    /\ idx <= Len(scan.jsFiles)
    /\ scan.jsFiles[idx].io /= "fails"
    /\ LET file == scan.jsFiles[idx]
           keyGroup == Slashes(file.path, 1) \o " (JS/TS)"
       IN  SetLocals(processJavaScriptContent(Locals, file.content, keyGroup))
    /\ idx' = idx + 1
    /\ UNCHANGED <<scan, pc, constantsRegistry, result, previous, runs, exitCode,
                   output, summary, classifierVars, unitVars>>

\* lines 363, 387, 419: fs.readFile rejects, nothing catches it, and the
\* promise of extractLocatorsFromVue rejects
ReadFails ==
    /\ \/ pc = "constants" /\ idx <= Len(AllFiles) /\ AllFiles[idx].io /= "ok"
       \/ pc = "vue" /\ idx <= Len(scan.vueFiles) /\ scan.vueFiles[idx].io /= "ok"
       \/ pc = "js" /\ idx <= Len(scan.jsFiles) /\ scan.jsFiles[idx].io /= "ok"
    /\ pc' = "rejected"
    /\ result' = [state |-> "rejected"]
    /\ UNCHANGED <<scan, idx, constantsRegistry, groupedLocators, warnings,
                   customComponentWarnings, discovered, previous, runs, exitCode,
                   output, summary, classifierVars, unitVars>>

\* line 432: return { groupedLocators, warnings, customComponentWarnings }
Return ==
    /\ pc = "js"
    /\ idx > Len(scan.jsFiles)
    /\ pc' = "returned"
    /\ result' = [state |-> "returned", groupedLocators |-> groupedLocators,
                  warnings |-> warnings,
                  customComponentWarnings |-> customComponentWarnings]
    /\ UNCHANGED <<scan, idx, constantsRegistry, groupedLocators, warnings,
                   customComponentWarnings, discovered, previous, runs, exitCode,
                   output, summary, classifierVars, unitVars>>

(***************************************************************************)
(* The command line program (extractLocators.ts, main).                    *)
(***************************************************************************)
RECURSIVE Sum(_, _)
Sum(f, S) ==
    IF S = {} THEN 0
    ELSE LET x == CHOOSE x \in S : TRUE IN f[x] + Sum(f, S \ {x})

\* Object.values(groups).reduce((sum, locators) => sum + Object.keys(locators).length, 0)
CountLocators(groups) ==
    Sum([g \in DOMAIN groups |-> Cardinality(DOMAIN groups[g])], DOMAIN groups)

\* the files of the records of one robustness, each with its whole table
Partition_WholeTables(groups, robustness) ==
    LET Keys(g) == {k \in DOMAIN groups[g] : groups[g][k].robustness = robustness}
    IN  [g \in {g \in DOMAIN groups : Keys(g) /= {}} |-> groups[g]]

\* lines 64-78: the records of one robustness, by file
Partition(groups, robustness) ==
    LET Keys(g) == {k \in DOMAIN groups[g] : groups[g][k].robustness = robustness}
    IN  [g \in {g \in DOMAIN groups : Keys(g) /= {}} |->
            [k \in Keys(g) |-> groups[g][k]]]

(***************************************************************************)
(* The page object emitter (extractLocators.ts, generatePageObjectClasses).*)
(* Of a class the accessors are modelled: for every key of the file's      *)
(* table the name of the property and the call that initialises it.        *)
(***************************************************************************)
ToUpperChar(c) ==
    IF c \in LowerSet
    THEN Char(UpperLetters, CHOOSE i \in 1..Len(LowerLetters) : Char(LowerLetters, i) = c)
    ELSE c

\* .replace(/_(\w)/g, (_, letter) => letter.toUpperCase())
RECURSIVE SnakeToCamel(_, _)
SnakeToCamel(key, from) ==
    LET hits == {i \in from..(Len(key) - 1) :
                    Char(key, i) = "_" /\ Char(key, i + 1) \in WordSet}
    IN  IF hits = {} THEN SubSeq(key, from, Len(key))
        ELSE SubSeq(key, from, Min(hits) - 1) \o ToUpperChar(Char(key, Min(hits) + 1))
                 \o SnakeToCamel(key, Min(hits) + 2)

\* .replace(/^(\w)/, (_, letter) => letter.toLowerCase())
LowerFirst(str) ==
    IF str /= "" /\ Char(str, 1) \in WordSet
    THEN ToLowerChar(Char(str, 1)) \o SubSeq(str, 2, Len(str))
    ELSE str

\* .replace(/xpath/gi, '')
RECURSIVE RemoveXPath(_, _)
RemoveXPath(str, from) ==
    LET hits == {i \in from..(Len(str) - 4) : toLowerCase(SubSeq(str, i, i + 4)) = "xpath"}
    IN  IF hits = {} THEN SubSeq(str, from, Len(str))
        ELSE SubSeq(str, from, Min(hits) - 1) \o RemoveXPath(str, Min(hits) + 5)

\* lines 99-102: propertyName
propertyName(key) ==
    KeepRange(LowerFirst(SnakeToCamel(key, 1)), LetterSet \cup DigitSet, 1,
              Len(LowerFirst(SnakeToCamel(key, 1))))

\* lines 201-205: cleanPropertyName and finalPropertyName
finalPropertyName(key) ==
    IF StripUnderscores(RemoveXPath(propertyName(key), 1)) = "" THEN "element"
    ELSE StripUnderscores(RemoveXPath(propertyName(key), 1))

\* .replace(/'/g, "\\'")
RECURSIVE EscapeQuotes(_, _)
EscapeQuotes(str, from) ==
    LET i == IndexFrom(str, "'", from)
    IN  IF i = 0 THEN SubSeq(str, from, Len(str))
        ELSE SubSeq(str, from, i - 1) \o "\\'" \o EscapeQuotes(str, i + 1)

formElements == {"input", "textarea", "select"}

\* lines 104-179: switch (info.type)
playwrightMethod(info) ==
    CASE info.type \in {"data-testid", "data-test-id"} ->
             "page.getByTestId('" \o info.rawValue \o "')"
      [] info.type = "data-test" ->
             "page.locator('[data-test=\"" \o info.rawValue \o "\"]')"
      [] info.type = "id" ->
             IF toLowerCase(info.element) \in {"strong", "xgrid"}
             THEN "page.getByTestId('" \o info.rawValue \o "')"
             ELSE "page.locator('#" \o info.rawValue \o "')"
      [] info.type = "aria-label" -> "page.getByLabel('" \o info.rawValue \o "')"
      [] info.type = "role" -> "page.getByRole('" \o info.rawValue \o "')"
      [] info.type = "placeholder" ->
             "page.getByPlaceholder('" \o info.rawValue \o "')"
      [] info.type = "name" ->
             IF toLowerCase(info.element) \in formElements
             THEN "page.getByLabel('" \o info.rawValue \o "')"
             ELSE "page.locator('[name=\"" \o info.rawValue \o "\"]')"
      [] info.type = "xpath" ->
             "page.locator('" \o EscapeQuotes(info.rawValue, 1) \o "')"
      [] OTHER -> "page.locator('" \o info.selector \o "')"

\* mutant: the accessor of a dynamic record takes the first match
generatePageObjectClasses_FirstOfDynamic(locators) ==
    [file \in DOMAIN locators |->
        [key \in DOMAIN locators[file] |->
            [property |-> finalPropertyName(key),
             initialization |->
                 playwrightMethod(locators[file][key])
                     \o (IF locators[file][key].isDynamic THEN ".first()" ELSE "")]]]

\* lines 81-233: for every file its class, for every key its accessor
generatePageObjectClasses(locators) ==
    [file \in DOMAIN locators |->
        [key \in DOMAIN locators[file] |->
            [property |-> finalPropertyName(key),
             initialization |-> playwrightMethod(locators[file][key])]]]

\* lines 12-440: the table is printed, split, written out and summarised
MainReport ==
    /\ pc = "returned"
    /\ output' = [written |-> TRUE,
                  robustLocators |-> Partition(result.groupedLocators, "robust"),
                  fragileLocators |-> Partition(result.groupedLocators, "fragile"),
                  robustPageObjects |->
                      generatePageObjectClasses(
                          Partition(result.groupedLocators, "robust")),
                  fragilePageObjects |->
                      generatePageObjectClasses(
                          Partition(result.groupedLocators, "fragile")),
                  locatorMap |-> result.groupedLocators]
    /\ summary' =
           [printed |-> TRUE,
            files |-> Cardinality(DOMAIN result.groupedLocators),
            totalLocators |-> CountLocators(result.groupedLocators),
            robustCount |-> CountLocators(Partition(result.groupedLocators, "robust")),
            fragileCount |-> CountLocators(Partition(result.groupedLocators, "fragile")),
            withWarnings |-> Len(result.warnings),
            customComponents |-> Len(result.customComponentWarnings)]
    /\ exitCode' = 0
    /\ pc' = "exited"
    /\ UNCHANGED <<scan, idx, constantsRegistry, groupedLocators, warnings,
                   customComponentWarnings, discovered, result, previous, runs,
                   classifierVars, unitVars>>

\* lines 441-444: catch (error) { console.error(...); process.exit(1) }
MainCatch ==
    /\ pc = "rejected"
    /\ exitCode' = 1
    /\ pc' = "exited"
    /\ UNCHANGED <<scan, idx, constantsRegistry, groupedLocators, warnings,
                   customComponentWarnings, discovered, result, previous, runs,
                   output, summary, classifierVars, unitVars>>

Next ==
    \/ Call
    \/ GlobFails
    \/ ScanConstants
    \/ BeginTemplates
    \/ ProcessVueFile
    \/ BeginJs
    \/ ProcessJsFile
    \/ ReadFails
    \/ Return
    \/ MainReport
    \/ MainCatch

Spec == Init /\ [][Next]_vars

(***************************************************************************)
(* classifyElement applied to bounded inputs.                              *)
(***************************************************************************)
Classify ==
    /\ classified = Unclassified
    /\ classified' = classifyElement(clsElement, clsAttributes)
    /\ UNCHANGED <<clsElement, clsAttributes, before, added, extractorVars, unitVars>>

\* one attribute more on the same element, and the classification of the
\* result
AddAttribute ==
    /\ classified /= Unclassified
    /\ Cardinality(DOMAIN clsAttributes) < MaxAttrs
    /\ \E pair \in AttributePairs :
          /\ pair[1] \notin DOMAIN clsAttributes
          /\ clsAttributes' = Put(clsAttributes, pair[1], pair[2])
          /\ added' = pair[1]
    /\ before' = classified
    /\ classified' = classifyElement(clsElement, clsAttributes')
    /\ UNCHANGED <<clsElement, extractorVars, unitVars>>

ClassifyInit ==
    /\ scan = Scan("ok", <<>>, <<>>)
    /\ ExtractorInit
    /\ clsElement \in Elements
    /\ ClassifierInit
    /\ KeyIdle
    /\ SelectorIdle
    /\ ContextIdle
    /\ calls = NoCalls

ClassifyNext == Classify \/ AddAttribute

SpecClassify == ClassifyInit /\ [][ClassifyNext]_vars

(***************************************************************************)
(* generateEnhancedKey applied to bounded inputs.                          *)
(***************************************************************************)
RawValues ==
    { "logout-btn", "Main Nav", "tab", "btn  btn-primary", "--Save & Close--",
      "//ul/li[@id='x']", "Enter e-mail", "user_ID", " ", "" }

Types ==
    { "data-testid", "id", "name", "class", "role", "placeholder", "aria-label",
      "xpath" }

GenerateKey ==
    /\ ~ keyReturned.done
    /\ keyReturned' =
           [done |-> TRUE,
            key |-> generateEnhancedKey(keyArguments.rawValue, keyArguments.type,
                                        keyArguments.isDynamic,
                                        keyArguments.isConditional)]
    /\ UNCHANGED <<keyArguments, extractorVars, classifierVars, selectorVars,
                   contextVars, calls>>

KeyInit ==
    /\ scan = Scan("ok", <<>>, <<>>)
    /\ ExtractorInit
    /\ clsElement = "button"
    /\ ClassifierInit
    /\ keyArguments \in {KeyArguments(rawValue, type, isDynamic, isConditional) :
                             rawValue \in RawValues, type \in Types,
                             isDynamic \in BOOLEAN, isConditional \in BOOLEAN}
    /\ keyReturned = NoKey
    /\ SelectorIdle
    /\ ContextIdle
    /\ calls = NoCalls

SpecKey == KeyInit /\ [][GenerateKey]_vars

(***************************************************************************)
(* The selector builder of the class pattern applied to bounded inputs.    *)
(***************************************************************************)
ClassPattern == CHOOSE pat \in SeqToSet(locatorPatterns) : pat.lit = "class"

ClassValues ==
    { "btn", "btn btn-primary", "btn  btn-primary", " btn primary", "btn primary ",
      " lead\tbig ", " ", "{ on: a }", "[a, b]", "{{ cls }}", "item-${i}",
      "a b c" }

BuildSelector ==
    /\ ~ selectorReturned.done
    /\ selectorReturned' =
           [done |-> TRUE,
            ok |-> selector(ClassPattern, selectorArgument).ok,
            selector |-> selector(ClassPattern, selectorArgument).selector]
    /\ UNCHANGED <<selectorArgument, extractorVars, classifierVars, keyVars,
                   contextVars, calls>>

\* the value is taken alone, or after or before white space
SelectorInit ==
    /\ scan = Scan("ok", <<>>, <<>>)
    /\ ExtractorInit
    /\ clsElement = "button"
    /\ ClassifierInit
    /\ KeyIdle
    /\ selectorArgument \in {pre \o val \o post :
                                 pre \in {"", " ", "\n "}, val \in ClassValues,
                                 post \in {"", " ", "  "}}
    /\ selectorReturned = NoSelector
    /\ ContextIdle
    /\ calls = NoCalls

SpecSelector == SelectorInit /\ [][BuildSelector]_vars

(***************************************************************************)
(* The context resolvers, extractElementWithAttributesEnhanced and         *)
(* analyzeElementContext, applied to a normalized template and an index    *)
(* inside one of its opening tags.                                         *)
(***************************************************************************)
ContextTemplates ==
    { "<ul v-for=\"i in n\"><li class=\"item\" data-testid=\"row\">A</li></ul>",
      "<p v-if=\"a\">x</p><span id=\"s\" title=\"T\">y</span>",
      "<main><div v-if=\"open\" data-testid=\"panel\" hidden>x</div></main>",
      "<div><section v-show=\"x\"><b>t</b><a href=\"/r\" :title=\"R\">go</a></section></div>",
      "<form><input id=\"email\" name=\"email\" v-model=\"m\"><button type=\"submit\">Go</button></form>",
      "<nav>\n  <a v-for=\"l in links\"\n     :href = \"l.to\" class=\"nav-link\">{{ l.text }}</a>\n</nav>" }

\* position p of content is inside an opening tag, after its bracket
InOpeningTag(content, p) ==
    /\ p <= Len(content)
    /\ LastIndexOfAny(content, {"<"}, p) > LastIndexOfAny(content, {">"}, p)
    /\ LastIndexOfAny(content, {"<"}, p) < p
    /\ Char(content, LastIndexOfAny(content, {"<"}, p) + 1) /= "/"

\* lines 1345-1350: the two resolvers are called with the same match
ResolveContext ==
    /\ ~ contextReturned.done
    /\ contextReturned' =
           [done |-> TRUE,
            element |->
                extractElementWithAttributesEnhanced(contextArguments.matchIndex,
                                                     contextArguments.content).element,
            attributes |->
                extractElementWithAttributesEnhanced(contextArguments.matchIndex,
                                                     contextArguments.content).attributes,
            parentContext |->
                analyzeElementContext(contextArguments.content,
                                      contextArguments.matchIndex).parentContext]
    /\ UNCHANGED <<contextArguments, extractorVars, classifierVars, keyVars,
                   selectorVars, calls>>

ContextInit ==
    /\ scan = Scan("ok", <<>>, <<>>)
    /\ ExtractorInit
    /\ clsElement = "button"
    /\ ClassifierInit
    /\ KeyIdle
    /\ SelectorIdle
    /\ contextArguments \in
           {[content |-> normalizeTemplateForParsing(t), matchIndex |-> p] :
               t \in ContextTemplates, p \in 1..Max({Len(u) : u \in ContextTemplates})}
    /\ InOpeningTag(contextArguments.content, contextArguments.matchIndex)
    /\ contextReturned = NoContext
    /\ calls = NoCalls

SpecContext == ContextInit /\ [][ResolveContext]_vars

(***************************************************************************)
(* The two loops of an invocation as folds over the files, in the order    *)
(* the files are read.                                                     *)
(***************************************************************************)
NoLocals ==
    [groupedLocators |-> NoGroups, warnings |-> <<>>, customComponentWarnings |-> <<>>,
     discovered |-> <<>>]

\* the loop over the Vue files, read in the order of files
RECURSIVE VuePass(_, _, _)
VuePass(st, files, registry) ==
    IF files = <<>> THEN st
    ELSE VuePass(IF templateMatch(Head(files).content).found
                 THEN processTemplateContent(
                          st, templateMatch(Head(files).content).templateContent,
                          Slashes(Head(files).path, 1), Head(files).path, registry)
                 ELSE st,
                 Tail(files), registry)

\* the loop over the JS/TS files, read in the order of files
RECURSIVE JsPass(_, _)
JsPass(st, files) ==
    IF files = <<>> THEN st
    ELSE JsPass(processJavaScriptContent(st, Head(files).content,
                                         Slashes(Head(files).path, 1) \o " (JS/TS)"),
                Tail(files))

(***************************************************************************)
(* Two invocations of extractLocatorsFromVue in one process, on different  *)
(* directories.  Each has its own files, position, table and lists; the    *)
(* registry of constants is the module's (line 88) and is shared.  A step  *)
(* is what an invocation does between two awaits: the body of the function *)
(* up to the first fast-glob call, or one fs.readFile with what follows it *)
(* up to the next await of a file or of the directory.                     *)
(***************************************************************************)
Invocations == {1, 2}

OverlapScans ==
    { Scan("a", <<VueFile("src/App.vue",
                          "<button :aria-label=\"CLOSE_LABEL\">x</button>", "ok")>>,
           <<File("src/a.ts", "export const CLOSE_LABEL = 'Dismiss'\n", "ok")>>),
      Scan("b", <<VueFile("src/App.vue",
                          "<button :aria-label=\"CLOSE_LABEL\">x</button>", "ok")>>,
           <<>>),
      Scan("c", <<VueFile("src/Home.vue", "<h2 :title=\"TITLE_LABEL\">Home</h2>", "ok")>>,
           <<ConstantsTs("ok")>>),
      Scan("d", <<VueFile("src/Save.vue", "<button data-testid=\"save\">Save</button>",
                          "ok")>>,
           <<>>) }

\* the position after the loops that have nothing left to read
RECURSIVE Position(_, _, _)
Position(files, at, i) ==
    IF at = "constants" /\ i > Len(files.vueFiles \o files.jsFiles)
    THEN Position(files, "vue", 1)
    ELSE IF at = "vue" /\ i > Len(files.vueFiles) THEN Position(files, "js", 1)
    ELSE IF at = "js" /\ i > Len(files.jsFiles) THEN [pc |-> "done", idx |-> 1]
    ELSE [pc |-> at, idx |-> i]

IdleCall(files) ==
    [scan |-> files, pc |-> "idle", idx |-> 1, locals |-> NoLocals, result |-> NoResult]

singleVars == <<scan, pc, idx, groupedLocators, warnings, customComponentWarnings,
                discovered, result, previous, runs, exitCode, output, summary,
                classifierVars, keyVars, selectorVars, contextVars>>

OverlapInit ==
    /\ scan = Scan("missing", <<>>, <<>>)
    /\ ExtractorInit
    /\ clsElement = "button"
    /\ ClassifierInit
    /\ KeyIdle
    /\ SelectorIdle
    /\ ContextIdle
    /\ calls \in {<<IdleCall(a), IdleCall(b)>> : a \in OverlapScans, b \in OverlapScans}
    /\ calls[1].scan.root /= calls[2].scan.root

\* lines 321-326: entry; the registry is cleared, then the directory is
\* awaited
CallOverlapped(c) ==
    /\ calls[c].pc = "idle"
    /\ constantsRegistry' = NoConstants
    /\ calls' = [calls EXCEPT ![c].pc = "globbing"]
    /\ UNCHANGED singleVars

\* lines 326-360: the two lists of files arrive, the first file is awaited
FilesFound(c) ==
    /\ calls[c].pc = "globbing"
    /\ calls' = [calls EXCEPT ![c].pc = Position(calls[c].scan, "constants", 1).pc,
                              ![c].idx = Position(calls[c].scan, "constants", 1).idx]
    /\ UNCHANGED <<constantsRegistry, singleVars>>

\* lines 361-382: a file of the first pass arrives and its constants are
\* registered
ScanConstantsOverlapped(c) ==
    /\ calls[c].pc = "constants"
    /\ constantsRegistry' =
           extractConstants(constantsRegistry,
                            (calls[c].scan.vueFiles \o calls[c].scan.jsFiles)[calls[c].idx].content,
                            (calls[c].scan.vueFiles \o calls[c].scan.jsFiles)[calls[c].idx].path)
    /\ calls' = [calls EXCEPT
                   ![c].pc = Position(calls[c].scan, "constants", calls[c].idx + 1).pc,
                   ![c].idx = Position(calls[c].scan, "constants", calls[c].idx + 1).idx]
    /\ UNCHANGED singleVars

\* lines 384-413: a Vue file arrives and its template is processed
ProcessVueFileOverlapped(c) ==
    /\ calls[c].pc = "vue"
    /\ calls' = [calls EXCEPT
                   ![c].locals =
                       VuePass(calls[c].locals,
                               <<calls[c].scan.vueFiles[calls[c].idx]>>,
                               constantsRegistry),
                   ![c].pc = Position(calls[c].scan, "vue", calls[c].idx + 1).pc,
                   ![c].idx = Position(calls[c].scan, "vue", calls[c].idx + 1).idx]
    /\ UNCHANGED <<constantsRegistry, singleVars>>

\* lines 416-430: a JS/TS file arrives and is processed
ProcessJsFileOverlapped(c) ==
    /\ calls[c].pc = "js"
    /\ calls' = [calls EXCEPT
                   ![c].locals =
                       JsPass(calls[c].locals, <<calls[c].scan.jsFiles[calls[c].idx]>>),
                   ![c].pc = Position(calls[c].scan, "js", calls[c].idx + 1).pc,
                   ![c].idx = Position(calls[c].scan, "js", calls[c].idx + 1).idx]
    /\ UNCHANGED <<constantsRegistry, singleVars>>

\* line 432: the promise of the invocation resolves
ReturnOverlapped(c) ==
    /\ calls[c].pc = "done"
    /\ calls' = [calls EXCEPT
                   ![c].pc = "returned",
                   ![c].result =
                       [state |-> "returned",
                        groupedLocators |-> calls[c].locals.groupedLocators,
                        warnings |-> calls[c].locals.warnings,
                        customComponentWarnings |-> calls[c].locals.customComponentWarnings]]
    /\ UNCHANGED <<constantsRegistry, singleVars>>

OverlapNext ==
    \E c \in Invocations :
        \/ CallOverlapped(c)
        \/ FilesFound(c)
        \/ ScanConstantsOverlapped(c)
        \/ ProcessVueFileOverlapped(c)
        \/ ProcessJsFileOverlapped(c)
        \/ ReturnOverlapped(c)

SpecOverlap == OverlapInit /\ [][OverlapNext]_vars

(***************************************************************************)
(* Properties of the classifier, checked under SpecClassify.               *)
(***************************************************************************)
\* a value with a character that is not white space
NonBlank(value) == \E i \in 1..Len(value) : Char(value, i) \notin SpaceSet

\* an upper or lower case spelling of lit starts somewhere in value
ContainsIgnoringCase(value, lit) ==
    \E i \in 1..(Len(value) - Len(lit) + 1) :
        \A n \in 1..Len(lit) : ToLowerChar(Char(value, i + n - 1)) = Char(lit, n)

\* the xpath the classifier looks at: data-xpath when it has one, else xpath
XPathOf(attributes) ==
    IF "data-xpath" \in DOMAIN attributes /\ attributes["data-xpath"] /= ""
    THEN attributes["data-xpath"]
    ELSE IF "xpath" \in DOMAIN attributes THEN attributes["xpath"] ELSE ""

\* C6 as stated: an element that classified as fragile classifies as robust
\* once data-testid, id or name is added to it with a non-empty value
C6_NonEmptyMakesRobust ==
    (/\ added \in {"data-testid", "id", "name"}
     /\ clsAttributes[added] /= ""
     /\ before.robustness = "fragile")
        => classified.robustness = "robust"

\* C6, amended: an element that classified as fragile classifies as robust
\* once data-testid, id or name is added to it with a value that is not
\* blank (not empty once white space is trimmed from it), all else equal
C6_NonBlankMakesRobust ==
    (/\ added \in {"data-testid", "id", "name"}
     /\ NonBlank(clsAttributes[added])
     /\ before.robustness = "fragile")
        => classified.robustness = "robust"

\* a fragile element became robust by the addition of a name
C6_Witness ==
    /\ added = "name"
    /\ NonBlank(clsAttributes["name"])
    /\ before.robustness = "fragile"
    /\ classified.robustness = "robust"

C8_TestRelevance ==
    classified /= Unclassified =>
        classified.testRelevance =
            IF /\ "class" \in DOMAIN clsAttributes
               /\ \E lit \in {"icon", "decoration", "separator", "spacer", "divider"} :
                      includes(clsAttributes["class"], lit)
            THEN "low"
            ELSE IF clsElement \in {"button", "input", "textarea", "select", "a", "form"}
            THEN "high"
            ELSE IF \/ clsElement \in {"h1", "h2", "h3", "h4", "h5", "h6", "table",
                                       "tr", "td", "th", "ul", "ol", "li"}
                    \/ \E a \in {"data-testid", "data-test-id", "data-test", "id",
                                 "name", "role", "aria-label", "placeholder",
                                 "title", "alt"} :
                           a \in DOMAIN clsAttributes /\ NonBlank(clsAttributes[a])
            THEN "medium"
            ELSE "low"

\* a button with an id and a decorative class is of low relevance
C8_Witness ==
    /\ clsElement = "button"
    /\ DOMAIN clsAttributes = {"class", "id"}
    /\ clsAttributes["class"] = "icon"
    /\ clsAttributes["id"] = "main"
    /\ classified.testRelevance = "low"

(***************************************************************************)
(* Properties of extractLocatorsFromVue and of the command line program,   *)
(* checked under Spec.                                                     *)
(***************************************************************************)
\* the records of a grouped table
Records(groups) == UNION {{groups[g][k] : k \in DOMAIN groups[g]} : g \in DOMAIN groups}

\* the number of discovery lines before line i with the file and key of line i
Collisions(i) ==
    Cardinality({j \in 1..(i - 1) :
                    /\ discovered[j].keyGroup = discovered[i].keyGroup
                    /\ discovered[j].key = discovered[i].key})

\* key for the first record with a key, key_1 for the second, key_2 ...
NumberedKey(i) ==
    IF Collisions(i) = 0 THEN discovered[i].key
    ELSE discovered[i].key \o "_" \o ToString(Collisions(i))

\* the discovery line of the record the final table holds under key k of g
LastStored(g, k) ==
    CHOOSE i \in 1..Len(discovered) :
        /\ discovered[i].keyGroup = g
        /\ discovered[i].key = k
        /\ \A j \in (i + 1)..Len(discovered) :
               ~ (discovered[j].keyGroup = g /\ discovered[j].key = k)

\* C1: of the accepted matches of one file with the same generated key, the
\* first is in the file's final table under key, the second under key_1, the
\* third under key_2, in the order they were seen; none replaces another
C1_CollidingKeysNumbered ==
    result.state = "returned" =>
        \A i \in 1..Len(discovered) :
            /\ discovered[i].keyGroup \in DOMAIN result.groupedLocators
            /\ NumberedKey(i) \in DOMAIN result.groupedLocators[discovered[i].keyGroup]
            /\ result.groupedLocators[discovered[i].keyGroup][NumberedKey(i)].rawValue
                   = discovered[i].rawValue
            /\ result.groupedLocators[discovered[i].keyGroup][NumberedKey(i)].type
                   = discovered[i].type

\* C2: an attribute occurrence of a template that a pattern of the ordered
\* list accepted has exactly one record in the file's final table, not zero
\* and not two, whichever other patterns accept the same text
C2_OneRecordPerOccurrence ==
    result.state = "returned" =>
        \A i \in 1..Len(discovered) :
            discovered[i].by = "locatorPatterns" =>
                Cardinality(
                    {k \in DOMAIN result.groupedLocators[discovered[i].keyGroup] :
                        /\ discovered[LastStored(discovered[i].keyGroup, k)].by
                               = "locatorPatterns"
                        /\ discovered[LastStored(discovered[i].keyGroup, k)].at
                               = discovered[i].at}) = 1

\* C3: the returned table has no record of low relevance that is neither
\* dynamic nor conditional
C3_LowRelevanceFiltered ==
    result.state = "returned" =>
        \A info \in Records(result.groupedLocators) :
            info.testRelevance = "low" => (info.isDynamic \/ info.isConditional)

\* C4: the returned list of warnings holds the warning of every fragile
\* record of high relevance of the returned table
C4_WarningsCollected ==
    result.state = "returned" =>
        \A info \in Records(result.groupedLocators) :
            (info.robustness = "fragile" /\ info.testRelevance = "high") =>
                \E i \in 1..Len(result.warnings) : result.warnings[i] = info.warning

\* C5: a record has a warning only when it is fragile and of high relevance
C5_WarningOnlyFragileHigh ==
    result.state = "returned" =>
        \A info \in Records(result.groupedLocators) :
            info.warning /= "" =>
                (info.robustness = "fragile" /\ info.testRelevance = "high")

\* the files of the scan set that cannot be read
Unreadable == {i \in 1..Len(AllFiles) : AllFiles[i].io = "fails"}

\* C9: when a file of the scan set cannot be read the run goes on to its
\* end: it exits with success, the outputs are written with the locators of
\* the Vue files that can be read, and the summary is printed
C9_PerFileErrorIsolation ==
    (pc = "exited" /\ Unreadable /= {}) =>
        /\ exitCode = 0
        /\ output.written
        /\ summary.printed
        /\ \A i \in 1..Len(scan.vueFiles) :
               (/\ scan.vueFiles[i].io = "ok"
                /\ templateMatch(scan.vueFiles[i].content).templateContent /= "")
                   => Slashes(scan.vueFiles[i].path, 1) \in DOMAIN output.locatorMap

C11_ExitStatus ==
    pc = "exited" =>
        /\ (scan.root /= "ok" => exitCode /= 0)
        /\ ((scan.root = "ok" /\ result.state = "returned") => exitCode = 0)

\* the text the extractor scanned for the table keyGroup: the normalized
\* template of the Vue file of that name
TemplateOf(keyGroup) ==
    LET i == CHOOSE j \in 1..Len(scan.vueFiles) :
                 Slashes(scan.vueFiles[j].path, 1) = keyGroup
    IN  normalizeTemplateForParsing(templateMatch(scan.vueFiles[i].content).templateContent)

\* the records that come from a template
FromTemplate(i) == discovered[i].by \in {"locatorPatterns", "interactiveElementPatterns"}

\* the opening tag around position at of template t
OwnTag(t, at) == SubSeq(t, LastIndexOfAny(t, {"<"}, at), IndexFrom(t, ">", at))

VoidElements == {"input", "br", "img", "hr", "meta", "link"}

\* the opening tags, outermost first, of the elements that are open when
\* position limit of template t is reached
RECURSIVE OpenTags(_, _, _, _)
OpenTags(t, from, limit, stack) ==
    LET i == IndexFrom(t, "<", from)
        e == IndexFrom(t, ">", i)
        n == IndexOfAny(t, SpaceSet \cup {">", "/"}, i + 1)
    IN  IF i = 0 \/ i >= limit \/ e = 0 THEN stack
        ELSE IF Char(t, i + 1) = "/"
             THEN OpenTags(t, e + 1, limit,
                           IF stack = <<>> THEN stack
                           ELSE SubSeq(stack, 1, Len(stack) - 1))
        ELSE IF Char(t, e - 1) = "/" \/ toLowerCase(SubSeq(t, i + 1, n - 1)) \in VoidElements
             THEN OpenTags(t, e + 1, limit, stack)
        ELSE OpenTags(t, e + 1, limit, Append(stack, SubSeq(t, i, e)))

\* the opening tag has an attribute of one of the names
TagHas(tag, names) ==
    \E i \in 1..Len(tag), n \in names :
        /\ Char(tag, i) \in SpaceSet
        /\ StartsWithAt(tag, i + 1, n)
        /\ Char(tag, i + 1 + Len(n)) \in {"=", " ", ">", "/"}

\* the element at position at of the template of keyGroup, or one of the
\* elements that enclose it, has an attribute of one of the names
OnElementOrAncestor(keyGroup, at, names) ==
    \/ TagHas(OwnTag(TemplateOf(keyGroup), at), names)
    \/ \E k \in DOMAIN OpenTags(TemplateOf(keyGroup), 1,
                                LastIndexOfAny(TemplateOf(keyGroup), {"<"}, at), <<>>) :
           TagHas(OpenTags(TemplateOf(keyGroup), 1,
                           LastIndexOfAny(TemplateOf(keyGroup), {"<"}, at), <<>>)[k],
                  names)

\* C12: a record of a template is flagged dynamic exactly when the element
\* it is of, or an element that encloses it, has a v-for
C12_DynamicIffVFor ==
    \A i \in 1..Len(discovered) :
        FromTemplate(i) =>
            (discovered[i].info.isDynamic
                <=> OnElementOrAncestor(discovered[i].keyGroup, discovered[i].at, {"v-for"}))

\* C13: a record of a template is flagged conditional exactly when the
\* element it is of, or an element that encloses it, has a v-if, a v-else-if
\* or a v-show
C13_ConditionalIffVIf ==
    \A i \in 1..Len(discovered) :
        FromTemplate(i) =>
            (discovered[i].info.isConditional
                <=> OnElementOrAncestor(discovered[i].keyGroup, discovered[i].at,
                                        {"v-if", "v-else-if", "v-show"}))

\* the attribute whose value closes at position at of template t is written
\* with : or v-bind: before its name
BoundAt(t, at) ==
    LET open == LastIndexOfAny(t, {Char(t, at)}, at - 1)
        name == BackWhile(t, DirectiveSet, open - 2)
    IN  /\ open > 2
        /\ Char(t, open - 1) = "="
        /\ name > 1
        /\ Char(t, name - 1) = ":"

\* C14: a record made from an attribute written as a binding, :attr or
\* v-bind:attr, is flagged dynamic
C14_BindingIsDynamic ==
    \A i \in 1..Len(discovered) :
        (/\ discovered[i].by = "locatorPatterns"
         /\ BoundAt(TemplateOf(discovered[i].keyGroup), discovered[i].at))
            => discovered[i].info.isDynamic

\* C15: no record is made of a captured value that holds an interpolation,
\* ${, {{ or {, whatever the attribute, so no selector of the returned table
\* holds one
C15_NoInterpolationInSelectors ==
    /\ \A i \in 1..Len(discovered) :
           (discovered[i].by = "locatorPatterns"
               /\ discovered[i].info.resolvedFromConstant = "")
              => ~ includes(discovered[i].rawValue, "{")
    /\ result.state = "returned" =>
           \A info \in Records(result.groupedLocators) : ~ includes(info.selector, "{")

(***************************************************************************)
(* The reference of the key generator, checked under SpecKey.              *)
(***************************************************************************)
\* the groups of letters and digits of str, in lower case, joined by single
\* underscores
RECURSIVE JoinGroups(_, _, _)
JoinGroups(str, i, out) ==
    IF i > Len(str) THEN out
    ELSE IF ToLowerChar(Char(str, i)) \notin LowerSet \cup DigitSet
         THEN JoinGroups(str, i + 1, out)
    ELSE JoinGroups(str, i + 1,
                    out \o (IF /\ out /= ""
                               /\ ToLowerChar(Char(str, i - 1)) \notin LowerSet \cup DigitSet
                            THEN "_" ELSE "")
                        \o ToLowerChar(Char(str, i)))

ReferenceTyped(normalized, type) ==
    CASE type = "class" -> "class_" \o normalized
      [] type = "role" -> normalized \o "_role"
      [] type = "placeholder" -> normalized \o "_input"
      [] type = "xpath" -> "xpath_" \o normalized
      [] OTHER -> normalized

ReferenceSuffix(isDynamic, isConditional) ==
    CASE isDynamic /\ isConditional -> "_dynamic_conditional"
      [] isDynamic /\ ~ isConditional -> "_dynamic"
      [] ~ isDynamic /\ isConditional -> "_conditional"
      [] OTHER -> ""

\* C16: the key generateEnhancedKey returns is the normalized raw value with
\* the prefix or suffix of its type (class_, _role, _input, xpath_), followed
\* by the suffix of its flags
C16_KeyEqualsReference ==
    keyReturned.done =>
        keyReturned.key
            = ReferenceTyped(JoinGroups(keyArguments.rawValue, 1, ""), keyArguments.type)
                  \o ReferenceSuffix(keyArguments.isDynamic, keyArguments.isConditional)

(***************************************************************************)
(* Properties of the keys and of the records of the returned table,        *)
(* checked under Spec.                                                     *)
(***************************************************************************)
EndsWith(str, suffix) ==
    /\ Len(str) >= Len(suffix)
    /\ SubSeq(str, Len(str) - Len(suffix) + 1, Len(str)) = suffix

\* C17: the key of a record of the returned table, of a template or of a
\* JS/TS file, ends with the suffix of the record's flags: _dynamic when it
\* is dynamic, _conditional when it is conditional, neither when it is
\* neither
C17_KeyCarriesFlags ==
    result.state = "returned" =>
        \A g \in DOMAIN result.groupedLocators :
            \A k \in DOMAIN result.groupedLocators[g] :
                /\ result.groupedLocators[g][k].isDynamic <=> includes(k, "_dynamic")
                /\ result.groupedLocators[g][k].isConditional <=> EndsWith(k, "_conditional")

\* C18: every key of the returned table is an identifier: it is not empty
\* and holds only lowercase letters, digits and underscores, whatever the
\* type of its record
C18_KeysAreIdentifiers ==
    result.state = "returned" =>
        \A g \in DOMAIN result.groupedLocators :
            \A k \in DOMAIN result.groupedLocators[g] :
                /\ k /= ""
                /\ \A i \in 1..Len(k) : Char(k, i) \in LowerSet \cup DigitSet \cup {"_"}

\* C19: an entry put into a file's table stays as it was put: when the
\* invocation returns, the table holds under every key that was stored the
\* record that was first stored under it
C19_RecordsImmutable ==
    result.state = "returned" =>
        \A i \in 1..Len(discovered) :
            (\A j \in 1..(i - 1) :
                 ~ (discovered[j].keyGroup = discovered[i].keyGroup
                        /\ discovered[j].key = discovered[i].key))
                => /\ discovered[i].keyGroup \in DOMAIN result.groupedLocators
                   /\ discovered[i].key \in DOMAIN result.groupedLocators[discovered[i].keyGroup]
                   /\ result.groupedLocators[discovered[i].keyGroup][discovered[i].key]
                          = discovered[i].info

\* the text between the quotes of the attribute whose value closes at
\* position at of template t
CapturedAt(t, at) == SubSeq(t, LastIndexOfAny(t, {Char(t, at)}, at - 1) + 1, at - 1)

XPathRecords(groups) == {info \in Records(groups) : info.type = "xpath"}

\* C20: the selector of a record of type xpath is its raw value, character
\* for character, for a record of a data-xpath or xpath attribute (where it
\* is the text of the attribute) and for a record of the fallback pass, in
\* the table while it is built, in the returned table and in the locator map
\* written out
C20_XPathSelectorVerbatim ==
    /\ \A i \in 1..Len(discovered) :
           discovered[i].type = "xpath" =>
               /\ discovered[i].info.selector = discovered[i].info.rawValue
               /\ (discovered[i].by = "locatorPatterns"
                       /\ discovered[i].info.resolvedFromConstant = "")
                      => discovered[i].info.selector
                             = CapturedAt(TemplateOf(discovered[i].keyGroup), discovered[i].at)
    /\ \A info \in XPathRecords(groupedLocators) : info.selector = info.rawValue
    /\ result.state = "returned" =>
           \A info \in XPathRecords(result.groupedLocators) : info.selector = info.rawValue
    /\ output.written =>
           \A info \in XPathRecords(output.locatorMap) : info.selector = info.rawValue

\* the locator map is written with a record of a data-xpath attribute and a
\* record of the fallback pass whose XPath holds quotes
C20_Witness ==
    /\ output.written
    /\ \E info \in XPathRecords(output.locatorMap) :
           info.selector = "//ul/li" /\ info.element = "div"
    /\ \E i \in 1..Len(discovered) :
           /\ discovered[i].by = "interactiveElementPatterns"
           /\ includes(discovered[i].info.selector, "'")
           /\ discovered[i].info \in XPathRecords(output.locatorMap)

(***************************************************************************)
(* The reference of the class selector builder, checked under              *)
(* SpecSelector.                                                           *)
(***************************************************************************)
\* every maximal run of characters of str that are not white space, with a
\* dot before it
RECURSIVE DotTokens(_, _)
DotTokens(str, i) ==
    IF i > Len(str) THEN ""
    ELSE IF Char(str, i) \in SpaceSet THEN DotTokens(str, i + 1)
    ELSE (IF i = 1 \/ Char(str, i - 1) \in SpaceSet THEN "." ELSE "")
             \o Char(str, i) \o DotTokens(str, i + 1)

\* C21: the class selector builder returns null for a value with an
\* expression delimiter, and for any other value the tokens of the value in
\* order, each after one dot, however the tokens are spaced and whatever
\* white space is around them
C21_ClassSelector ==
    selectorReturned.done =>
        IF includes(selectorArgument, "{") \/ includes(selectorArgument, "[")
        THEN ~ selectorReturned.ok
        ELSE /\ selectorReturned.ok
             /\ selectorReturned.selector = DotTokens(selectorArgument, 1)

(***************************************************************************)
(* Properties of the outputs of the command line program and of the two    *)
(* passes of an invocation, checked under Spec.                            *)
(***************************************************************************)
\* the names of the accessors of the class written for file
Accessors(pageObjects, file) ==
    {pageObjects[file][key].property : key \in DOMAIN pageObjects[file]}

\* C22: a page object class has one accessor per record: the keys of the
\* file's robust records, and those of its fragile records, are rendered to
\* names that differ from one another
C22_OneAccessorPerLocator ==
    output.written =>
        /\ \A file \in DOMAIN output.robustPageObjects :
               Cardinality(Accessors(output.robustPageObjects, file))
                   = Cardinality(DOMAIN output.robustLocators[file])
        /\ \A file \in DOMAIN output.fragilePageObjects :
               Cardinality(Accessors(output.fragilePageObjects, file))
                   = Cardinality(DOMAIN output.fragileLocators[file])

\* the records the page objects were written for, each with the call that
\* initialises its accessor
Emitted(locators, pageObjects) ==
    UNION {{[info |-> locators[file][key],
             call |-> pageObjects[file][key].initialization] :
               key \in DOMAIN locators[file]} : file \in DOMAIN locators}

EmittedCalls ==
    Emitted(output.robustLocators, output.robustPageObjects)
        \cup Emitted(output.fragileLocators, output.fragilePageObjects)

RECURSIVE ConstantsOf(_, _)
ConstantsOf(files, registry) ==
    IF files = <<>> THEN registry
    ELSE ConstantsOf(Tail(files),
                     extractConstants(registry, Head(files).content, Head(files).path))

\* C24: from the first file of the extraction pass to the return of the
\* invocation the registry is what the constants pass over all the Vue and
\* JS/TS files of the scan set built: the pass is complete before extraction
\* begins and nothing writes the registry afterwards
C24_TwoPhaseBarrier ==
    pc \in {"vue", "js", "returned"} =>
        constantsRegistry = ConstantsOf(scan.vueFiles \o scan.jsFiles, NoConstants)

\* the extraction pass has stored a record whose value it resolved from a
\* constant of a JS/TS file
C24_Witness ==
    /\ pc = "js"
    /\ scan.jsFiles /= <<>>
    /\ "TITLE_LABEL" \in DOMAIN constantsRegistry
    /\ \E i \in 1..Len(discovered) : discovered[i].info.resolvedFromConstant /= ""

(***************************************************************************)
(* Properties of the context resolvers, checked under SpecContext.         *)
(***************************************************************************)
\* position i of tag is inside a quoted value
Quoted(tag, i) == Cardinality({j \in 1..(i - 1) : Char(tag, j) = "\""}) % 2 = 1

\* the attributes and directives written on an opening tag, each a pair of
\* its name and its value, the value empty for a name written alone
WrittenAttributes(tag) ==
    {<<SubSeq(tag, i, IndexOfAny(tag, SpaceSet \cup {"=", ">", "/"}, i) - 1),
       IF Char(tag, IndexOfAny(tag, SpaceSet \cup {"=", ">", "/"}, i)) = "="
       THEN SubSeq(tag, IndexOfAny(tag, {"="}, i) + 2,
                   IndexFrom(tag, "\"", IndexOfAny(tag, {"="}, i) + 2) - 1)
       ELSE "">> :
        i \in {j \in 2..Len(tag) :
                  /\ Char(tag, j - 1) \in SpaceSet
                  /\ Char(tag, j) \notin SpaceSet \cup {">", "/"}
                  /\ ~ Quoted(tag, j)}}

\* C25: for an index inside an opening tag the attribute map returned has
\* every attribute and directive written on the tag, under its name and with
\* its value, a directive written alone with the empty value
C25_AttributesOfTheTag ==
    contextReturned.done =>
        \A a \in WrittenAttributes(OwnTag(contextArguments.content,
                                          contextArguments.matchIndex)) :
            /\ a[1] \in DOMAIN contextReturned.attributes
            /\ contextReturned.attributes[a[1]] = a[2]

\* the names of the elements that enclose position at of template t and
\* have a loop or conditional directive
DirectedAncestors(t, at) ==
    {ParentTagMatch(OpenTags(t, 1, LastIndexOfAny(t, {"<"}, at), <<>>)[k]).tagName :
        k \in {j \in DOMAIN OpenTags(t, 1, LastIndexOfAny(t, {"<"}, at), <<>>) :
                  TagHas(OpenTags(t, 1, LastIndexOfAny(t, {"<"}, at), <<>>)[j],
                         SeqToSet(dynamicDirectives))}}

\* C26: the parent context of a match is not empty only when an element that
\* encloses the matched element has a loop or conditional directive, and it
\* then names such an element; a directive on the element itself or on an
\* element that does not enclose it leaves the parent context empty
C26_ParentContext ==
    (contextReturned.done /\ contextReturned.parentContext /= "") =>
        \E name \in DirectedAncestors(contextArguments.content,
                                      contextArguments.matchIndex) :
            contextReturned.parentContext
                = "inside " \o name \o " with dynamic directives"

(***************************************************************************)
(* Properties of the order of the files, of the partition of the table and *)
(* of the fallback pass, checked under Spec.                               *)
(***************************************************************************)
\* the files in the opposite order
Reverse(files) == [i \in 1..Len(files) |-> files[Len(files) + 1 - i]]

\* the table of an invocation that finds the files in the order given
TableOf(vueFiles, jsFiles) ==
    JsPass(VuePass(NoLocals, vueFiles, ConstantsOf(vueFiles \o jsFiles, NoConstants)),
           jsFiles).groupedLocators

\* C27: the table an invocation returns is the table of an invocation that
\* finds the Vue files and the JS/TS files in the opposite order
C27_OrderIndependent ==
    result.state = "returned" =>
        result.groupedLocators = TableOf(Reverse(scan.vueFiles), Reverse(scan.jsFiles))

\* C28: in the outputs every record of the table is in exactly one of the
\* robust map and the fragile map, under its file and key and according to
\* its robustness, the two maps hold nothing else, and the counts of the
\* summary add up: robustCount + fragileCount = totalLocators
C28_RobustFragilePartition ==
    output.written =>
        /\ \A g \in DOMAIN output.locatorMap :
               \A k \in DOMAIN output.locatorMap[g] :
                   /\ (output.locatorMap[g][k].robustness = "robust")
                          <=> (/\ g \in DOMAIN output.robustLocators
                               /\ k \in DOMAIN output.robustLocators[g]
                               /\ output.robustLocators[g][k] = output.locatorMap[g][k])
                   /\ (output.locatorMap[g][k].robustness /= "robust")
                          <=> (/\ g \in DOMAIN output.fragileLocators
                               /\ k \in DOMAIN output.fragileLocators[g]
                               /\ output.fragileLocators[g][k] = output.locatorMap[g][k])
        /\ \A g \in DOMAIN output.robustLocators \cup DOMAIN output.fragileLocators :
               /\ g \in DOMAIN output.locatorMap
               /\ DOMAIN Table(output.robustLocators, g)
                      \cup DOMAIN Table(output.fragileLocators, g)
                      = DOMAIN output.locatorMap[g]
        /\ \A g \in DOMAIN output.fragileLocators :
               \A k \in DOMAIN output.fragileLocators[g] :
                   output.fragileLocators[g][k].robustness = "fragile"
        /\ summary.robustCount + summary.fragileCount = summary.totalLocators

\* the outputs are written for a table with robust and fragile records, of
\* which one file has both
C28_Witness ==
    /\ output.written
    /\ summary.robustCount > 0
    /\ summary.fragileCount > 0
    /\ DOMAIN output.robustLocators \cap DOMAIN output.fragileLocators /= {}

\* the names of the robust attributes, plain and bound
RobustAttributeNames ==
    UNION {{robustAttributes[i], ":" \o robustAttributes[i],
            "v-bind:" \o robustAttributes[i]} : i \in 1..Len(robustAttributes)}

\* the text gives one of the names a value
Mentions(text, names) == \E n \in names : includes(text, n \o "=")

\* what the interactive patterns match in template t
InteractiveMatches(t) ==
    UNION {SeqToSet(ElementMatchesFrom(t, interactiveElementPatterns[p], 1)) :
               p \in 1..Len(interactiveElementPatterns)}

\* C29: the fallback XPath pass stores no record for an element whose
\* opening tag gives a robust attribute, plain or bound, a value, and stores
\* no record under a key that the table of the file already has
C29_FallbackOnlyAdds ==
    \A i \in 1..Len(discovered) :
        discovered[i].by = "interactiveElementPatterns" =>
            /\ ~ Mentions(OwnTag(TemplateOf(discovered[i].keyGroup), discovered[i].at),
                          RobustAttributeNames)
            /\ \A j \in 1..(i - 1) :
                   ~ /\ discovered[j].keyGroup = discovered[i].keyGroup
                     /\ discovered[j].key = discovered[i].key

\* the fallback pass has stored a record for one element of a template that
\* also has an interactive element with a robust attribute and, further on,
\* a second element of the same text as the one of the record
C29_Witness ==
    /\ result.state = "returned"
    /\ \E i \in 1..Len(discovered) :
           /\ discovered[i].by = "interactiveElementPatterns"
           /\ \E m \in InteractiveMatches(TemplateOf(discovered[i].keyGroup)) :
                  Mentions(OwnTag(TemplateOf(discovered[i].keyGroup), m.index),
                           RobustAttributeNames)
           /\ \E m, n \in InteractiveMatches(TemplateOf(discovered[i].keyGroup)) :
                  /\ m.index = discovered[i].at
                  /\ n.index > m.index
                  /\ n.full = m.full

(***************************************************************************)
(* Properties of overlapping invocations, checked under SpecOverlap.       *)
(***************************************************************************)
\* C30: an invocation that overlaps another one on a different directory
\* returns the table it returns when it runs alone
C30_NoInterference ==
    \A c \in Invocations :
        calls[c].pc = "returned" =>
            calls[c].result.groupedLocators
                = TableOf(calls[c].scan.vueFiles, calls[c].scan.jsFiles)

====
